---- MODULE Spec2Model ----
(***************************************************************************)
(* Streaming response pipeline of open_llm_vtuber:                        *)
(*   - SentenceDivider   (utils/sentence_divider.py)                      *)
(*   - StreamJSONDetector (mcpp/json_detector.py)                         *)
(*   - ToolExecutor      (mcpp/tool_executor.py)                          *)
(*   - BasicMemoryAgent  (agent/agents/basic_memory_agent.py) with the    *)
(*     model-completion streams of stateless_llm/                         *)
(* For the divider and the detector a Python str is a sequence of         *)
(* one-character strings, with Python's 0-based positions (find returns   *)
(* -1 when there is no match); the executor's strings are opaque.         *)
(***************************************************************************)
EXTENDS Integers, Sequences, FiniteSets, TLC

VARIABLES
    faster_first_response,  \* SentenceDivider.faster_first_response (constructor argument)
    sd_buffer,              \* SentenceDivider._buffer
    tag_stack,              \* SentenceDivider._tag_stack
    is_first_sentence,      \* SentenceDivider._is_first_sentence
    sd_phase,               \* "idle" (constructed), "streaming" (inside process_stream), "done"
    sd_fed,                 \* items the current process_stream call has consumed, in order
    sd_out,                 \* items the current process_stream call has yielded, in order
    sd_prior_dirty,         \* observer: the latest process_stream call found state left by earlier use
    sd_twin,                \* observer: a newly constructed divider fed the items of sd_fed
    sd_commas               \* observer: the positions in sd_out of the units the comma split made

sd_vars == <<faster_first_response, sd_buffer, tag_stack, is_first_sentence,
             sd_phase, sd_fed, sd_out, sd_prior_dirty, sd_twin, sd_commas>>

VARIABLES
    jd_buffer,              \* StreamJSONDetector.buffer
    potential_jsons,        \* StreamJSONDetector.potential_jsons
    completed_jsons,        \* StreamJSONDetector.completed_jsons
    processed_ranges,       \* StreamJSONDetector.processed_ranges
    jd_calls                \* observer: one record per process_chunk call since the last reset

jd_vars == <<jd_buffer, potential_jsons, completed_jsons, processed_ranges, jd_calls>>

VARIABLES
    te_phase,               \* execute_tools: idle, running, done or raised
    te_mode,                \* caller_mode
    te_calls,               \* tool_calls
    te_i,                   \* number of calls the loop has gone through
    te_events,              \* the events yielded so far
    te_results,             \* tool_results_for_llm
    te_marks,               \* observer: len(events) after each call
    te_remote               \* observer: what call_tool did for each call

te_vars == <<te_phase, te_mode, te_calls, te_i, te_events, te_results, te_marks, te_remote>>

VARIABLES
    llm_type,               \* "Claude" (ClaudeAsyncLLM) or "OpenAI" (OpenAICompatibleAsyncLLM)
    interrupt_method,       \* BasicMemoryAgent.interrupt_method (constructor argument)
    memory,                 \* BasicMemoryAgent._memory
    prompt_mode_flag,       \* BasicMemoryAgent.prompt_mode_flag
    interrupt_handled,      \* BasicMemoryAgent._interrupt_handled
    json_detector,          \* BasicMemoryAgent._json_detector (its four fields)
    tool_manager_enabled,   \* ToolManager.__enabled of BasicMemoryAgent._tool_manager
    tool_machinery,         \* _mcp_server_manager and _tool_manager are both set
    support_tools,          \* AsyncLLM.support_tools of the OpenAI compatible model
    ag_pc,                  \* chat_with_memory: idle, call, stream, exhausted or raised
    messages,               \* the interaction loop's local message list
    current_turn_text,      \* the interaction loop's local current_turn_text
    pending_tool_calls,     \* the interaction loop's local pending_tool_calls
    assistant_content,      \* the Claude loop's local current_assistant_message_content
    ag_turn,                \* observer: number of chat_with_memory calls so far
    ag_model_calls,         \* observer: model calls issued so far
    ag_deltas,              \* observer: text deltas consumed from the current stream
    ag_interrupts,          \* observer: handle_interrupt calls so far and in this turn, last argument
    ag_trace                \* observer: what the loop did, in order

ag_vars == <<llm_type, interrupt_method, memory, prompt_mode_flag, interrupt_handled,
             json_detector, tool_manager_enabled, tool_machinery, support_tools, ag_pc,
             messages,
             current_turn_text, pending_tool_calls, assistant_content, ag_turn,
             ag_model_calls, ag_deltas, ag_interrupts, ag_trace>>

VARIABLES
    cs_chunk,               \* the text chunk a caller is composing for a new divider
    cs_phase,               \* "typing" (the chunk is being composed) or "fed"
    cs_divider,             \* the divider the chunk is fed to
    cs_drain                \* observer: len(_buffer) at the start of each pass of the latest drain

cs_vars == <<cs_chunk, cs_phase, cs_divider, cs_drain>>

VARIABLES
    message_queue,          \* ProxyMessageQueue.message_queue: the queued text-input messages
    conversation_active,    \* ProxyMessageQueue._conversation_active
    consumer_task,          \* _consumer_task: "none" (None or done), "sleep" (in sleep(0.1)), "idle" (in sleep(1))
    forward_tasks,          \* the _forward_message tasks in flight, each with the call it makes next
    px_arrived,             \* observer: queue_message calls so far (the next message is px_arrived + 1)
    px_signals,             \* observer: interrupt and conversation-end signals received so far
    px_handed,              \* observer: the messages the consumer has popped, in order
    px_forwarded,           \* observer: the messages the forward function has taken, in order
    px_open                 \* observer: forwarded messages with no interrupt or end signal since

px_vars == <<message_queue, conversation_active, consumer_task, forward_tasks,
             px_arrived, px_signals, px_handed, px_forwarded, px_open>>

vars == <<sd_vars, jd_vars, te_vars, ag_vars, cs_vars, px_vars>>

\* ------------------------------------------------------------------------
\* Bounds of the model
\* ------------------------------------------------------------------------
MaxMessages == 3    \* queue_message calls on one ProxyMessageQueue

MaxSignals == 2     \* interrupt and conversation-end signals it receives

MaxChunkLen == 3    \* pieces of the chunk fed to the divider under SpecComma

MaxOpen == 1        \* tags opened before that chunk

MaxItems == 3       \* items (text chunks, dicts, others) fed to one stream

MaxJsonChunks == 4  \* process_chunk calls between two resets of the detector

MaxCalls == 2  \* tool calls in one batch of execute_tools

MaxModelCalls == 3  \* model calls of one agent, over all its turns

MaxDeltas == 1  \* text deltas of one model stream

MaxInterrupts == 3  \* handle_interrupt calls on one agent, over all its turns

\* ------------------------------------------------------------------------
\* Python str helpers
\* ------------------------------------------------------------------------
IsSpace(c) == c = " "

RECURSIVE lstrip(_)
lstrip(s) == IF s # <<>> /\ IsSpace(Head(s)) THEN lstrip(Tail(s)) ELSE s

RECURSIVE rstrip(_)
rstrip(s) ==
    IF s # <<>> /\ IsSpace(s[Len(s)]) THEN rstrip(SubSeq(s, 1, Len(s) - 1)) ELSE s

strip(s) == rstrip(lstrip(s))

\* s[a:b] and s[a:]
Slice(s, a, b) == SubSeq(s, a + 1, b)

From(s, a) == SubSeq(s, a + 1, Len(s))

\* p occurs in s at 0-based position i
MatchAt(s, p, i) == i + Len(p) <= Len(s) /\ SubSeq(s, i + 1, i + Len(p)) = p

\* s.find(p)
find(s, p) ==
    LET hits == {i \in 0..(Len(s) - Len(p)) : MatchAt(s, p, i)}
    IN  IF hits = {} THEN -1 ELSE CHOOSE i \in hits : \A j \in hits : i <= j

contains(s, p) == find(s, p) # -1

endswith(s, p) == Len(p) <= Len(s) /\ MatchAt(s, p, Len(s) - Len(p))

RECURSIVE Concat(_)
Concat(ss) == IF ss = <<>> THEN <<>> ELSE Head(ss) \o Concat(Tail(ss))

RECURSIVE NoSpace(_)
NoSpace(s) ==
    IF s = <<>> THEN <<>>
    ELSE IF IsSpace(Head(s)) THEN NoSpace(Tail(s)) ELSE <<Head(s)>> \o NoSpace(Tail(s))

\* ------------------------------------------------------------------------
\* sentence_divider.py: module constants (the entries over the model's alphabet)
\* ------------------------------------------------------------------------
COMMAS == << <<",">>, <<";">> >>

END_PUNCTUATIONS == << <<".">>, <<"!">>, <<"?">>, <<".", ".", ".">> >>

ABBREVIATIONS == << <<"M", "r", ".">> >>

\* the character class of segment_text_by_regex's pattern: joining the escaped
\* punctuations with "|" inside [...] makes "|" a member of the class
REGEX_END_CLASS == {".", "!", "?", "|"}

valid_tags == << <<"t">>, <<"u">> >>

contains_comma(text) == \E i \in 1..Len(COMMAS) : contains(text, COMMAS[i])

contains_end_punctuation(text) ==
    \E i \in 1..Len(END_PUNCTUATIONS) : contains(text, END_PUNCTUATIONS[i])

ends_with_abbreviation(text) ==
    \E i \in 1..Len(ABBREVIATIONS) : endswith(text, ABBREVIATIONS[i])

\* a comma split that yields the same unit and consumes nothing
comma_splitter_consuming_nothing(text) ==
    [sentence |-> text, remaining |-> text]

\* comma_splitter: the first entry of COMMAS (in list order) that occurs in text
\* decides the split, at its first occurrence
comma_splitter(text) ==
    IF ~contains_comma(text) THEN [sentence |-> text, remaining |-> <<>>]
    ELSE LET k == CHOOSE i \in 1..Len(COMMAS) :
                      /\ contains(text, COMMAS[i])
                      /\ \A j \in 1..(i - 1) : ~contains(text, COMMAS[j])
             comma == COMMAS[k]
             pos == find(text, comma)
         IN  [sentence |-> strip(Slice(text, 0, pos)) \o comma,
              remaining |-> strip(From(text, pos + Len(comma)))]

\* re.search(pattern, remaining_text).end(1): one past the first character of
\* the class, 0 when the pattern does not match
RegexEnd(text) ==
    LET hits == {i \in 1..Len(text) : text[i] \in REGEX_END_CLASS}
    IN  IF hits = {} THEN 0 ELSE CHOOSE i \in hits : \A j \in hits : i <= j

RECURSIVE RegexLoop(_, _)
RegexLoop(remaining_text, complete_sentences) ==
    IF remaining_text = <<>> \/ RegexEnd(remaining_text) = 0
    THEN [sentences |-> complete_sentences, remaining |-> remaining_text]
    ELSE LET end_pos == RegexEnd(remaining_text)
             potential_sentence == strip(Slice(remaining_text, 0, end_pos))
             rest == lstrip(From(remaining_text, end_pos))
         IN  IF ends_with_abbreviation(potential_sentence)
             THEN RegexLoop(rest, complete_sentences)
             ELSE RegexLoop(rest, Append(complete_sentences, potential_sentence))

segment_text_by_regex(text) ==
    IF text = <<>> THEN [sentences |-> <<>>, remaining |-> <<>>]
    ELSE RegexLoop(strip(text), <<>>)

\* ------------------------------------------------------------------------
\* Tags
\* ------------------------------------------------------------------------
TagInfo(name, state) == [name |-> name, state |-> state]

NoneTag == TagInfo(<<>>, "none")

Pattern(kind, tag) ==
    CASE kind = "self"  -> <<"<">> \o tag \o <<"/", ">">>
      [] kind = "start" -> <<"<">> \o tag \o <<">">>
      [] kind = "end"   -> <<"<", "/">> \o tag \o <<">">>

\* _get_current_tags, reporting the innermost open tag only
get_current_tags_innermost(stack) == << TagInfo(stack[Len(stack)].name, "inside") >>

\* _get_current_tags
get_current_tags(stack) == [i \in 1..Len(stack) |-> TagInfo(stack[i].name, "inside")]

TagsOrNone(stack) ==
    IF stack = <<>> THEN <<NoneTag>> ELSE get_current_tags(stack)

SentenceWithTags(text, tags) == [kind |-> "unit", text |-> text, tags |-> tags]

\* the searches of _extract_tag, in the order the code makes them: self-closing
\* for every valid tag, then opening, then closing
ExtractOrder ==
    [i \in 1..(3 * Len(valid_tags)) |->
        [kind |-> <<"self", "start", "end">>[((i - 1) \div Len(valid_tags)) + 1],
         tag  |-> valid_tags[((i - 1) % Len(valid_tags)) + 1]]]

RECURSIVE FirstTag(_, _, _, _)
FirstTag(text, i, first_pos, first) ==
    IF i > Len(ExtractOrder) THEN [pos |-> first_pos, found |-> first]
    ELSE LET p == find(text, Pattern(ExtractOrder[i].kind, ExtractOrder[i].tag))
         IN  IF p # -1 /\ p < first_pos
             THEN FirstTag(text, i + 1, p, <<ExtractOrder[i]>>)
             ELSE FirstTag(text, i + 1, first_pos, first)

\* a tag stack that pops its top on every END tag, matching or not
StackAfterTagPoppingAny(stack, kind, tag) ==
    CASE kind = "start" -> Append(stack, TagInfo(tag, "start"))
      [] kind = "end" ->
            IF stack = <<>> THEN stack ELSE SubSeq(stack, 1, Len(stack) - 1)
      [] OTHER -> stack

\* the tag stack after _extract_tag has handled a tag of the given kind
StackAfterTag(stack, kind, tag) ==
    CASE kind = "start" -> Append(stack, TagInfo(tag, "start"))
      [] kind = "end" ->
            IF stack = <<>> \/ stack[Len(stack)].name # tag
            THEN stack
            ELSE SubSeq(stack, 1, Len(stack) - 1)
      [] OTHER -> stack

\* _extract_tag: found (the tag, if any), the remaining text and the new stack
extract_tag(text, stack) ==
    LET f == FirstTag(text, 1, Len(text), <<>>)
    IN  IF f.found = <<>>
        THEN [found |-> FALSE, tag_info |-> NoneTag, remaining |-> text, stack |-> stack]
        ELSE LET c == f.found[1]
             IN  [found |-> TRUE,
                  tag_info |-> TagInfo(c.tag, c.kind),
                  remaining |-> lstrip(From(text, f.pos + Len(Pattern(c.kind, c.tag)))),
                  stack |-> StackAfterTag(stack, c.kind, c.tag)]

\* next_tag_pos of _process_buffer: the earliest position of any pattern of any
\* valid tag, len(buffer) when there is none
NextTagPos(buf) ==
    LET hits == {find(buf, Pattern(k, valid_tags[i])) :
                    k \in {"start", "end", "self"}, i \in 1..Len(valid_tags)} \ {-1}
    IN  IF hits = {} THEN Len(buf) ELSE CHOOSE p \in hits : \A q \in hits : p <= q

\* _segment_text with segment_method "regex" (the method pysbd falls back to for
\* an undetected or unsupported language)
segment_text(text) == segment_text_by_regex(text)

Units(sentences, stack) ==
    [i \in 1..Len(sentences) |-> SentenceWithTags(strip(sentences[i]), TagsOrNone(stack))]

\* ------------------------------------------------------------------------
\* _process_buffer: the drain loop, on a divider state
\*   d = [buffer, stack, first, ffr (faster_first_response), yielded, commas]
\* where commas lists the positions in yielded of the units of the comma split
\* ------------------------------------------------------------------------
Processed(d) == [d |-> d, processed_something |-> TRUE]

\* one pass through the body of the while loop, entered with a buffer that is
\* not blank: the divider after it and the pass's processed_something
Iteration(d) ==
    LET buf == d.buffer
        next_tag_pos == NextTagPos(buf)
    IN
    IF next_tag_pos = 0 THEN
        \* tag at the start of the buffer
        LET e == extract_tag(buf, d.stack)
            processed_text == strip(Slice(buf, 0, Len(buf) - Len(e.remaining)))
        IN  Processed([d EXCEPT
                !.buffer = e.remaining,
                !.stack = e.stack,
                !.yielded = Append(@, SentenceWithTags(processed_text, <<e.tag_info>>))])
    ELSE IF next_tag_pos < Len(buf) THEN
        LET text_before_tag == Slice(buf, 0, next_tag_pos)
        IN
        IF contains_end_punctuation(text_before_tag) THEN
            \* the sentences are yielded; remaining_before is not put back
            LET seg == segment_text(text_before_tag)
            IN  Processed([d EXCEPT
                    !.buffer = From(buf, Len(text_before_tag)),
                    !.yielded = @ \o Units(seg.sentences, d.stack)])
        ELSE IF strip(text_before_tag) # <<>> THEN
            Processed([d EXCEPT
                !.buffer = From(buf, Len(text_before_tag)),
                !.yielded = Append(@, SentenceWithTags(strip(text_before_tag),
                                                       TagsOrNone(d.stack)))])
        ELSE
            \* only whitespace before the tag
            LET e == extract_tag(buf, d.stack)
                processed_tag_text == strip(Slice(buf, 0, Len(buf) - Len(e.remaining)))
            IN  Processed([d EXCEPT
                    !.buffer = e.remaining,
                    !.stack = e.stack,
                    !.yielded = Append(@, SentenceWithTags(processed_tag_text,
                                                           <<e.tag_info>>))])
    ELSE
        \* no tag in the buffer
        IF d.first /\ d.ffr /\ contains_comma(buf) THEN
            LET c == comma_splitter(buf)
            IN  Processed([d EXCEPT
                    !.buffer = c.remaining,
                    !.first = FALSE,
                    !.commas = Append(@, Len(d.yielded) + 1),
                    !.yielded = Append(@, SentenceWithTags(strip(c.sentence),
                                                           TagsOrNone(d.stack)))])
        ELSE IF contains_end_punctuation(buf) /\ segment_text(buf).sentences # <<>> THEN
            LET seg == segment_text(buf)
            IN  Processed([d EXCEPT
                    !.buffer = seg.remaining,
                    !.first = FALSE,
                    !.yielded = @ \o Units(seg.sentences, d.stack)])
        ELSE [d |-> d, processed_something |-> FALSE]

\* the while loop: it ends on a blank buffer and after a pass that processed
\* nothing
RECURSIVE process_buffer(_)
AfterIteration(it) == IF it.processed_something THEN process_buffer(it.d) ELSE it.d

process_buffer(d) ==
    IF strip(d.buffer) = <<>> THEN d ELSE AfterIteration(Iteration(d))

\* _flush_buffer
flush_buffer(d) ==
    LET p == process_buffer(d)
    IN  IF strip(p.buffer) # <<>>
        THEN [p EXCEPT !.buffer = <<>>,
                       !.yielded = Append(@, SentenceWithTags(strip(p.buffer),
                                                              TagsOrNone(p.stack)))]
        ELSE p

\* reset, leaving the tag stack as it is
reset_keep_stack(d) == [d EXCEPT !.first = TRUE, !.buffer = <<>>]

\* reset
reset(d) == [d EXCEPT !.first = TRUE, !.buffer = <<>>, !.stack = <<>>]

\* a newly constructed SentenceDivider (__init__)
NewDivider(ffr) ==
    [buffer |-> <<>>, stack |-> <<>>, first |-> TRUE, ffr |-> ffr, yielded |-> <<>>,
     commas |-> <<>>]

\* the body of process_stream's loop for one item
StrItem(text) == [kind |-> "str", text |-> text]

DictItem(payload) == [kind |-> "dict", payload |-> payload]

OtherItem == [kind |-> "other"]

\* the loop body without a drain: text is only buffered, a dict is forwarded
\* at once
ConsumeItemNoDrain(d, item) ==
    CASE item.kind = "dict" -> [d EXCEPT !.yielded = Append(@, item)]
      [] item.kind = "str" -> [d EXCEPT !.buffer = @ \o item.text]
      [] OTHER -> d

ConsumeItem(d, item) ==
    CASE item.kind = "dict" ->
            LET p == process_buffer(d) IN [p EXCEPT !.yielded = Append(@, item)]
      [] item.kind = "str" -> process_buffer([d EXCEPT !.buffer = @ \o item.text])
      [] OTHER -> d

\* ------------------------------------------------------------------------
\* Inputs of the model
\* ------------------------------------------------------------------------
Chunks ==
    { <<"a">>, <<".">>, <<" ">>, <<",">>,
      <<"<">>, <<"t", ">">>,
      <<"<", "t", ">">>, <<"<", "/", "t", ">">>, <<"<", "t", "/", ">">>,
      <<"<", "u", ">">>, <<"<", "/", "u", ">">>,
      <<"M", "r", ".">>,
      <<"a", ".", "a", "<", "t", ">">>,
      <<".", "<", " ">>,
      <<"<", "t", ">", "a", "<", "/", "t", ">", "a", ".">> }

Dicts == {"d1", "d2"}

\* ------------------------------------------------------------------------
\* SentenceDivider as a state machine
\* ------------------------------------------------------------------------
Divider ==
    [buffer |-> sd_buffer, stack |-> tag_stack, first |-> is_first_sentence,
     ffr |-> faster_first_response, yielded |-> <<>>, commas |-> <<>>]

SetDivider(d) ==
    /\ sd_buffer' = d.buffer
    /\ tag_stack' = d.stack
    /\ is_first_sentence' = d.first
    /\ sd_out' = sd_out \o d.yielded
    /\ sd_commas' = sd_commas \o [i \in 1..Len(d.commas) |-> Len(sd_out) + d.commas[i]]
    /\ UNCHANGED faster_first_response

SDInit ==
    /\ faster_first_response \in BOOLEAN
    /\ sd_buffer = <<>>
    /\ tag_stack = <<>>
    /\ is_first_sentence = TRUE
    /\ sd_phase = "idle"
    /\ sd_fed = <<>>
    /\ sd_out = <<>>
    /\ sd_prior_dirty = FALSE
    /\ sd_twin = NewDivider(faster_first_response)
    /\ sd_commas = <<>>

\* process_stream is called: self.reset(), then the loop waits for items
StartStream ==
    /\ LET d == reset(Divider)
       IN  /\ sd_buffer' = d.buffer
           /\ tag_stack' = d.stack
           /\ is_first_sentence' = d.first
    /\ sd_phase' = "streaming"
    /\ sd_fed' = <<>>
    /\ sd_out' = <<>>
    /\ sd_prior_dirty' = (sd_buffer # <<>> \/ tag_stack # <<>> \/ ~is_first_sentence)
    /\ sd_twin' = NewDivider(faster_first_response)
    /\ sd_commas' = <<>>
    /\ UNCHANGED faster_first_response

FeedItem(item) ==
    /\ sd_phase = "streaming"
    /\ Len(sd_fed) < MaxItems
    /\ sd_fed' = Append(sd_fed, item)
    /\ SetDivider(ConsumeItem(Divider, item))
    /\ sd_twin' = ConsumeItem(sd_twin, item)
    /\ UNCHANGED <<sd_phase, sd_prior_dirty>>

FeedText == \E c \in Chunks : FeedItem(StrItem(c))

FeedDict == \E p \in Dicts : FeedItem(DictItem(p))

FeedOther == FeedItem(OtherItem)

\* the input stream ends: _flush_buffer
EndStream ==
    /\ sd_phase = "streaming"
    /\ SetDivider(flush_buffer(Divider))
    /\ sd_twin' = flush_buffer(sd_twin)
    /\ sd_phase' = "done"
    /\ UNCHANGED <<sd_fed, sd_prior_dirty>>

SDNext == StartStream \/ FeedText \/ FeedDict \/ FeedOther \/ EndStream

\* ------------------------------------------------------------------------
\* One chunk through a new divider: the comma split of the first sentence
\* ------------------------------------------------------------------------
CommaAlphabet == {"a", " ", ",", ";"}

\* what the chunk is composed of
Pieces ==
    { <<"a">>, <<" ">>, <<",">>, <<";">>, <<".">>, <<"<">>, <<"M", "r", ".">>,
      <<"<", "t", ">">>, <<"<", "/", "t", ">">>, <<"<", "t", "/", ">">>,
      <<"<", "/", "u", ">">> }

\* len(_buffer) at the start of every pass of the while loop of _process_buffer
\* run on d, the pass that ends the loop included
RECURSIVE DrainLengths(_)
LengthsAfter(it) == IF it.processed_something THEN DrainLengths(it.d) ELSE <<>>

DrainLengths(d) ==
    <<Len(d.buffer)>>
        \o (IF strip(d.buffer) = <<>> THEN <<>> ELSE LengthsAfter(Iteration(d)))

CSInit ==
    /\ cs_chunk = <<>>
    /\ cs_phase = "typing"
    /\ cs_divider = NewDivider(faster_first_response)
    /\ cs_drain = <<>>

\* process_stream's loop body on an item of text
CSFeed(text) ==
    LET d == [cs_divider EXCEPT !.buffer = @ \o text]
    IN  /\ cs_drain' = DrainLengths(d)
        /\ cs_divider' = process_buffer(d)

\* an earlier chunk of the stream was an opening tag
OpenTag ==
    /\ cs_phase = "typing"
    /\ cs_chunk = <<>>
    /\ Len(cs_divider.stack) < MaxOpen
    /\ \E i \in 1..Len(valid_tags) : CSFeed(Pattern("start", valid_tags[i]))
    /\ UNCHANGED <<cs_chunk, cs_phase>>

\* the caller adds a piece to the chunk it is about to feed
ComposeChunk ==
    /\ cs_phase = "typing"
    /\ Len(cs_chunk) < MaxChunkLen
    /\ \E piece \in Pieces : cs_chunk' = Append(cs_chunk, piece)
    /\ UNCHANGED <<cs_phase, cs_divider, cs_drain>>

\* the chunk goes through process_stream's loop body
FeedChunk ==
    /\ cs_phase = "typing"
    /\ cs_chunk # <<>>
    /\ CSFeed(Concat(cs_chunk))
    /\ cs_phase' = "fed"
    /\ UNCHANGED cs_chunk

CSNext == OpenTag \/ ComposeChunk \/ FeedChunk

\* ------------------------------------------------------------------------
\* ProxyMessageQueue, with the ProxyHandler that feeds it.  The handler has
\* connected to the server, so initialize has set the forward function.
\* Every await of the source is a point where the other tasks may run.
\* ------------------------------------------------------------------------
PXInit ==
    /\ message_queue = <<>>
    /\ conversation_active = FALSE
    /\ consumer_task = "none"
    /\ forward_tasks = {}
    /\ px_arrived = 0
    /\ px_signals = 0
    /\ px_handed = <<>>
    /\ px_forwarded = <<>>
    /\ px_open = {}

\* _ensure_consumer_running: a new consumer task starts in its first sleep
ensure_consumer_running(task) == IF task = "none" THEN "sleep" ELSE task

\* queue_message, called for a text-input message of a client
QueueMessage ==
    /\ px_arrived < MaxMessages
    /\ px_arrived' = px_arrived + 1
    /\ message_queue' = Append(message_queue, px_arrived + 1)
    /\ consumer_task' = ensure_consumer_running(consumer_task)
    /\ UNCHANGED <<conversation_active, forward_tasks, px_signals, px_handed,
                   px_forwarded, px_open>>

\* the setter of conversation_active, called with False
SetInactive ==
    /\ conversation_active' = FALSE
    /\ consumer_task' = IF conversation_active /\ message_queue # <<>>
                        THEN ensure_consumer_running(consumer_task)
                        ELSE consumer_task

\* a signal that ends the running conversations has been received
Signal ==
    /\ px_signals < MaxSignals
    /\ px_signals' = px_signals + 1
    /\ SetInactive
    /\ px_open' = {}
    /\ UNCHANGED <<message_queue, forward_tasks, px_arrived, px_handed, px_forwarded>>

\* a client sends an interrupt-signal: the handler marks the conversation
\* inactive and forwards the signal to the server
InterruptSignal == Signal

\* the server sends conversation-chain-end for a conversation it is running
ConversationEnd == px_open # {} /\ Signal

\* the consumer task returns from sleep(0.1): under the lock it pops a
\* message if no conversation is active, marks the conversation active and
\* creates the task that forwards the message; then it goes on to sleep(0.1)
\* or, with nothing pending and nothing active, to sleep(1)
ConsumerWake ==
    /\ consumer_task = "sleep"
    /\ IF ~conversation_active /\ message_queue # <<>>
       THEN /\ message_queue' = Tail(message_queue)
            /\ conversation_active' = TRUE
            /\ forward_tasks' = forward_tasks \cup
                   {[message |-> Head(message_queue), next |-> "transcription"]}
            /\ px_handed' = Append(px_handed, Head(message_queue))
       ELSE UNCHANGED <<message_queue, conversation_active, forward_tasks, px_handed>>
    /\ consumer_task' = IF message_queue' = <<>> /\ ~conversation_active'
                        THEN "idle" ELSE "sleep"
    /\ UNCHANGED <<px_arrived, px_signals, px_forwarded, px_open>>

\* the consumer task returns from sleep(1): it ends if there is still nothing
\* pending and nothing active
ConsumerIdleCheck ==
    /\ consumer_task = "idle"
    /\ consumer_task' = IF message_queue = <<>> /\ ~conversation_active
                        THEN "none" ELSE "sleep"
    /\ UNCHANGED <<message_queue, conversation_active, forward_tasks, px_arrived,
                   px_signals, px_handed, px_forwarded, px_open>>

\* _forward_message's except clause
ForwardFailed(task) ==
    /\ conversation_active' = FALSE
    /\ forward_tasks' = forward_tasks \ {task}
    /\ UNCHANGED <<px_forwarded, px_open>>

\* _forward_message calls the forward function with the transcription copy
\* of its text-input message; the call returns or raises
ForwardTranscription ==
    /\ \E task \in forward_tasks, ok \in BOOLEAN :
          /\ task.next = "transcription"
          /\ IF ok
             THEN /\ forward_tasks' = (forward_tasks \ {task}) \cup
                                          {[task EXCEPT !.next = "message"]}
                  /\ UNCHANGED <<conversation_active, px_forwarded, px_open>>
             ELSE ForwardFailed(task)
    /\ UNCHANGED <<message_queue, consumer_task, px_arrived, px_signals, px_handed>>

\* _forward_message calls the forward function with the message itself
ForwardMessage ==
    /\ \E task \in forward_tasks, ok \in BOOLEAN :
          /\ task.next = "message"
          /\ IF ok
             THEN /\ forward_tasks' = forward_tasks \ {task}
                  /\ px_forwarded' = Append(px_forwarded, task.message)
                  /\ px_open' = px_open \cup {task.message}
                  /\ UNCHANGED conversation_active
             ELSE ForwardFailed(task)
    /\ UNCHANGED <<message_queue, consumer_task, px_arrived, px_signals, px_handed>>

PXNext ==
    \/ QueueMessage
    \/ InterruptSignal
    \/ ConversationEnd
    \/ ConsumerWake
    \/ ConsumerIdleCheck
    \/ ForwardTranscription
    \/ ForwardMessage

\* ------------------------------------------------------------------------
\* json.loads on the text of a brace span, over the characters { } " : , 1 and
\* letters: objects with string keys, whose values are objects, strings or
\* integers. Positions are 1-based indexes of s; 0 is failure.
\* ------------------------------------------------------------------------
Quote == "\""

\* the index after the string literal that starts at i
ParseString(s, i) ==
    IF i > Len(s) \/ s[i] # Quote THEN 0
    ELSE LET closes == {k \in (i + 1)..Len(s) : s[k] = Quote}
         IN  IF closes = {} THEN 0
             ELSE (CHOOSE k \in closes : \A m \in closes : k <= m) + 1

\* the index after the integer literal that starts at i
RECURSIVE ParseNumber(_, _)
ParseNumber(s, i) ==
    IF i + 1 <= Len(s) /\ s[i + 1] = "1" THEN ParseNumber(s, i + 1) ELSE i + 1

RECURSIVE ParseValue(_, _)
RECURSIVE ParseMembers(_, _)
ParseValue(s, i) ==
    IF i > Len(s) THEN 0
    ELSE CASE s[i] = "{" ->
                IF i + 1 <= Len(s) /\ s[i + 1] = "}" THEN i + 2 ELSE ParseMembers(s, i + 1)
           [] s[i] = Quote -> ParseString(s, i)
           [] s[i] = "1" -> ParseNumber(s, i)
           [] OTHER -> 0

\* the index after the "}" that ends the members starting at i
ParseMembers(s, i) ==
    LET k == ParseString(s, i)
    IN  IF k = 0 \/ k > Len(s) \/ s[k] # ":" THEN 0
        ELSE LET v == ParseValue(s, k + 1)
             IN  IF v = 0 \/ v > Len(s) THEN 0
                 ELSE IF s[v] = "}" THEN v + 1
                 ELSE IF s[v] = "," THEN ParseMembers(s, v + 1)
                 ELSE 0

\* json.loads(json_str) does not raise JSONDecodeError
json_loads_ok(json_str) == ParseValue(json_str, 1) = Len(json_str) + 1

\* ------------------------------------------------------------------------
\* StreamJSONDetector
\* ------------------------------------------------------------------------
is_in_processed_range(ranges, pos) ==
    \E n \in 1..Len(ranges) : ranges[n][1] <= pos /\ pos <= ranges[n][2]

\* _find_potential_starts
RECURSIVE find_potential_starts(_, _, _, _)
find_potential_starts(buf, i, potential, ranges) ==
    IF i >= Len(buf) THEN potential
    ELSE IF buf[i + 1] = "{" /\ ~is_in_processed_range(ranges, i)
         THEN find_potential_starts(buf, i + 1, Append(potential, i), ranges)
         ELSE find_potential_starts(buf, i + 1, potential, ranges)

\* the while loop of _extract_json: i and stack when it ends
RECURSIVE BraceScan(_, _, _)
BraceScan(buf, i, stack) ==
    IF i < Len(buf) /\ stack > 0
    THEN BraceScan(buf, i + 1,
                   IF buf[i + 1] = "{" THEN stack + 1
                   ELSE IF buf[i + 1] = "}" THEN stack - 1
                   ELSE stack)
    ELSE [i |-> i, stack |-> stack]

\* _extract_json: closed (the brace count came back to zero), ok (a value was
\* parsed), the value and its last position
extract_json(buf, start_idx) ==
    LET sc == BraceScan(buf, start_idx + 1, 1)
        json_str == Slice(buf, start_idx, sc.i)
    IN  IF sc.stack = 0 /\ json_loads_ok(json_str)
        THEN [closed |-> TRUE, ok |-> TRUE, value |-> json_str, end_idx |-> sc.i - 1]
        ELSE [closed |-> (sc.stack = 0), ok |-> FALSE, value |-> <<>>, end_idx |-> -1]

\* list.sort() on a list of positions
RECURSIVE SortInts(_)
SortInts(xs) ==
    IF xs = <<>> THEN <<>>
    ELSE LET m == CHOOSE n \in 1..Len(xs) : \A k \in 1..Len(xs) : xs[n] <= xs[k]
         IN  <<xs[m]>> \o SortInts(SubSeq(xs, 1, m - 1) \o SubSeq(xs, m + 1, Len(xs)))

\* what _try_parse_jsons does with a start that _extract_json gave no value for
KeepPending(remaining_potential, start_idx) == Append(remaining_potential, start_idx)

\* the for loop of _try_parse_jsons over the sorted starts, on
\*   t = [new_jsons, remaining_potential, ranges, completed, returned, attempted, failed]
RECURSIVE TryParseLoop(_, _, _)
TryParseLoop(buf, starts, t) ==
    IF starts = <<>> THEN t
    ELSE LET start_idx == Head(starts)
         IN  IF is_in_processed_range(t.ranges, start_idx)
             THEN TryParseLoop(buf, Tail(starts), t)
             ELSE LET r == extract_json(buf, start_idx)
                      a == [t EXCEPT !.attempted = Append(@, start_idx)]
                  IN  IF r.ok
                      THEN TryParseLoop(buf, Tail(starts),
                              [a EXCEPT !.new_jsons = Append(@, r.value),
                                        !.ranges = Append(@, <<start_idx, r.end_idx>>),
                                        !.completed = Append(@, r.value),
                                        !.returned = Append(@, <<start_idx, r.end_idx>>)])
                      ELSE TryParseLoop(buf, Tail(starts),
                              [a EXCEPT !.remaining_potential = KeepPending(@, start_idx),
                                        !.failed = IF r.closed THEN Append(@, start_idx)
                                                   ELSE @])

\* _try_parse_jsons
try_parse_jsons(buf, potential, ranges, completed) ==
    TryParseLoop(buf, SortInts(potential),
                 [new_jsons |-> <<>>, remaining_potential |-> <<>>, ranges |-> ranges,
                  completed |-> completed, returned |-> <<>>, attempted |-> <<>>,
                  failed |-> <<>>])

JsonChunks ==
    { <<"{", Quote, "a", Quote, ":">>,
      <<"1", "}">>,
      <<"1", "}", "}">>,
      <<"}">>,
      <<"{">>,
      <<"x">>,
      <<Quote, "}", Quote>>,
      <<"{", Quote, "a", Quote, ":", "1", "}">> }

JDInit ==
    /\ jd_buffer = <<>>
    /\ potential_jsons = <<>>
    /\ completed_jsons = <<>>
    /\ processed_ranges = <<>>
    /\ jd_calls = <<>>

\* process_chunk(chunk)
ProcessChunk ==
    \E chunk \in JsonChunks :
        /\ Len(jd_calls) < MaxJsonChunks
        /\ LET old_length == Len(jd_buffer)
               buf == jd_buffer \o chunk
               potential == find_potential_starts(buf, old_length, potential_jsons,
                                                  processed_ranges)
               t == try_parse_jsons(buf, potential, processed_ranges, completed_jsons)
           IN  /\ jd_buffer' = buf
               /\ potential_jsons' = t.remaining_potential
               /\ processed_ranges' = t.ranges
               /\ completed_jsons' = t.completed
               /\ jd_calls' = Append(jd_calls,
                                [len |-> Len(buf), new_jsons |-> t.new_jsons,
                                 returned |-> t.returned, attempted |-> t.attempted,
                                 failed |-> t.failed, pending |-> t.remaining_potential])

\* reset()
JDReset ==
    /\ jd_calls # <<>>
    /\ jd_buffer' = <<>>
    /\ potential_jsons' = <<>>
    /\ completed_jsons' = <<>>
    /\ processed_ranges' = <<>>
    /\ jd_calls' = <<>>

JDNext == ProcessChunk \/ JDReset

\* ------------------------------------------------------------------------
\* ToolExecutor (mcpp/tool_executor.py). Python values are strings; None is
\* the value None below. Timestamps are left out of events and of the
\* parse_error_<timestamp> identifier.
\* ------------------------------------------------------------------------
None == "None"

Falsy(x) == x \in {None, ""}

CallerModes == {"Claude", "OpenAI", "Prompt"}

\* ToolManager.tools: tool name -> related_server of its FormattedTool
related_server(tool_name) ==
    CASE tool_name \in {"search", "stagehand_navigate"} -> "srv"
      [] tool_name = "orphan" -> ""
      [] OTHER -> None

\* ToolManager.get_tool: is there a FormattedTool under that name
get_tool(tool_name) == tool_name \in {"search", "stagehand_navigate", "orphan"}

\* the tool calls of a batch; the call at position i has identifier call_<i>
CallId(i) == "call_" \o ToString(i)

CallShapes ==
    { [type |-> "ToolCallObject", has_id |-> TRUE, name |-> "search", arguments |-> "{}"],
      [type |-> "ToolCallObject", has_id |-> TRUE, name |-> "search", arguments |-> "{"],
      [type |-> "ToolCallObject", has_id |-> FALSE, name |-> "search", arguments |-> "{}"],
      [type |-> "dict", has_id |-> TRUE, name |-> "stagehand_navigate", input |-> "{}"],
      [type |-> "dict", has_id |-> TRUE, name |-> "ghost", input |-> None],
      [type |-> "dict", has_id |-> TRUE, name |-> "orphan", input |-> "{}"],
      [type |-> "dict", has_id |-> FALSE, name |-> "search", input |-> "{}"],
      [type |-> "dict", has_id |-> TRUE, name |-> None, input |-> "{}"],
      [type |-> "other"] }

MakeCall(shape, i) ==
    IF shape.type = "other" THEN shape
    ELSE [k \in (DOMAIN shape \ {"has_id"}) \cup {"id"} |->
             IF k = "id" THEN (IF shape.has_id THEN CallId(i) ELSE None) ELSE shape[k]]

\* parse_tool_call
parse_tool_call(call) ==
    CASE call.type = "ToolCallObject" ->
            IF call.arguments = "{}"
            THEN [tool_name |-> call.name, tool_id |-> call.id, tool_input |-> "{}",
                  is_error |-> FALSE, result_content |-> "", parse_error |-> FALSE]
            ELSE [tool_name |-> call.name, tool_id |-> call.id, tool_input |-> None,
                  is_error |-> TRUE,
                  result_content |-> "Error: Invalid arguments format for tool '"
                                         \o call.name \o "'.",
                  parse_error |-> TRUE]
      [] call.type = "dict" ->
            LET tool_input == IF call.input = None THEN "{}" ELSE call.input
            IN  IF Falsy(call.id) \/ Falsy(call.name)
                THEN [tool_name |-> call.name, tool_id |-> call.id,
                      tool_input |-> tool_input, is_error |-> TRUE,
                      result_content |-> "Error: Invalid tool call structure from LLM.",
                      parse_error |-> TRUE]
                ELSE [tool_name |-> call.name, tool_id |-> call.id,
                      tool_input |-> tool_input, is_error |-> FALSE,
                      result_content |-> "", parse_error |-> FALSE]
      [] OTHER ->
            [tool_name |-> "", tool_id |-> "", tool_input |-> None, is_error |-> TRUE,
             result_content |-> "Error: Unsupported tool call type.",
             parse_error |-> TRUE]

\* a Python value that is a str, and one that is a list (of content blocks)
PyStr(s) == [kind |-> "str", str |-> s]

PyList(items) == [kind |-> "list", items |-> items]

\* str(result_content); the repr of a list stands for itself
str(result_content) ==
    IF result_content.kind = "str" THEN result_content.str ELSE "<list>"

\* format_tool_result returning None
NoResult == [none |-> TRUE]

\* format_tool_result without its Prompt branch
format_tool_result_no_prompt(caller_mode, tool_id, result_content, is_error) ==
    CASE caller_mode = "Claude" ->
            [type |-> "tool_result", tool_use_id |-> tool_id,
             content |-> result_content, is_error |-> is_error]
      [] caller_mode = "OpenAI" ->
            [role |-> "tool", tool_call_id |-> tool_id, content |-> str(result_content)]
      [] OTHER -> NoResult

\* format_tool_result
format_tool_result(caller_mode, tool_id, result_content, is_error) ==
    CASE caller_mode = "Claude" ->
            LET content_to_send ==
                    CASE result_content.kind = "list" -> result_content
                      [] result_content.str # "" -> result_content
                      [] is_error -> PyStr("Error occurred during tool execution.")
                      [] OTHER -> PyStr("")
            IN  [type |-> "tool_result", tool_use_id |-> tool_id,
                 content |-> content_to_send, is_error |-> is_error]
      [] caller_mode = "OpenAI" ->
            [role |-> "tool", tool_call_id |-> tool_id, content |-> str(result_content)]
      [] caller_mode = "Prompt" ->
            [tool_id |-> tool_id, content |-> str(result_content), is_error |-> is_error]
      [] OTHER -> NoResult

\* what MCPClient.call_tool does for one invocation: it returns a result dict
\* (content_items, metadata) or raises
TextItem == [type |-> "text", text |-> "ok"]

ImageItem == [type |-> "image", data |-> "AAAA", mimeType |-> "image/png"]

ErrorItem == [type |-> "error", text |-> "tool failed"]

Returned(content_items, live) == 
    [kind |-> "return", content_items |-> content_items, live |-> live]

Raised(exc) == [kind |-> "raise", exc |-> exc]

CaughtByName == {"ValueError", "RuntimeError", "ConnectionError"}

RemoteOutcomes ==
    { Returned(<<TextItem>>, FALSE), Returned(<<TextItem>>, TRUE),
      Returned(<<TextItem, ImageItem>>, FALSE), Returned(<<ImageItem>>, FALSE),
      Returned(<<>>, FALSE), Returned(<<ErrorItem>>, FALSE),
      Raised("ValueError"), Raised("RuntimeError"), Raised("ConnectionError"),
      Raised("TimeoutError") }

ErrorOutcome(text_content) ==
    [raised |-> FALSE, is_error |-> TRUE, text_content |-> text_content, live |-> FALSE,
     content_items |-> << [type |-> "error", text |-> text_content] >>]

\* run_single_tool without the final "except Exception" clause: an exception
\* that is not a ValueError, RuntimeError or ConnectionError leaves the function
run_single_tool_no_catch_all(tool_name, tool_id, tool_input, remote) ==
    IF ~get_tool(tool_name)
    THEN ErrorOutcome("Error: Tool '" \o tool_name \o "' is not available.")
    ELSE IF Falsy(related_server(tool_name))
    THEN ErrorOutcome("Error: Configuration error for tool '" \o tool_name
                          \o "'. No server specified.")
    ELSE IF remote.kind = "raise"
    THEN IF remote.exc \in CaughtByName
         THEN ErrorOutcome("Error executing tool '" \o tool_name \o "': " \o remote.exc)
         ELSE [ErrorOutcome("") EXCEPT !.raised = TRUE]
    ELSE LET content_items == remote.content_items
             first_type == IF content_items = <<>> THEN None ELSE content_items[1].type
         IN  [raised |-> FALSE,
              is_error |-> first_type = "error",
              text_content |-> IF first_type \in {"error", "text"}
                               THEN content_items[1].text ELSE "",
              live |-> remote.live,
              content_items |-> content_items]

\* run_single_tool; remote is what the call_tool it awaits does. The field
\* raised says whether an exception leaves the function.
run_single_tool(tool_name, tool_id, tool_input, remote) ==
    IF ~get_tool(tool_name)
    THEN ErrorOutcome("Error: Tool '" \o tool_name \o "' is not available.")
    ELSE IF Falsy(related_server(tool_name))
    THEN ErrorOutcome("Error: Configuration error for tool '" \o tool_name
                          \o "'. No server specified.")
    ELSE IF remote.kind = "raise"
    THEN IF remote.exc \in CaughtByName
         THEN ErrorOutcome("Error executing tool '" \o tool_name \o "': " \o remote.exc)
         ELSE ErrorOutcome("Unexpected error executing tool '" \o tool_name
                               \o "': " \o remote.exc)
    ELSE LET content_items == remote.content_items
             first_type == IF content_items = <<>> THEN None ELSE content_items[1].type
         IN  [raised |-> FALSE,
              is_error |-> first_type = "error",
              text_content |-> IF first_type \in {"error", "text"}
                               THEN content_items[1].text ELSE "",
              live |-> remote.live,
              content_items |-> content_items]

\* ------------------------------------------------------------------------
\* execute_tools: the body of its loop for one call
\* ------------------------------------------------------------------------
ParseErrorId == "parse_error_"

StatusEvent(tool_id, tool_name, status, content) ==
    [type |-> "tool_call_status", tool_id |-> tool_id, tool_name |-> tool_name,
     status |-> status, content |-> content]

\* tool_results_for_llm after "if formatted_result: append"
AppendResult(results, formatted_result) ==
    IF formatted_result = NoResult THEN results ELSE Append(results, formatted_result)

IsImage(item) == item.type = "image"

IsFullImage(item) == IsImage(item) /\ {"data", "mimeType"} \subseteq DOMAIN item

ImageBlock(item) ==
    [type |-> "image",
     source |-> [type |-> "base64", media_type |-> item.mimeType, data |-> item.data]]

\* the parse_error branch: an error status event and an error result
HandleParseError(caller_mode, p, results) ==
    LET id == IF Falsy(p.tool_id) THEN ParseErrorId ELSE p.tool_id
    IN  [raised |-> FALSE,
         events |-> << StatusEvent(id,
                                   IF Falsy(p.tool_name) THEN "Unknown Tool" ELSE p.tool_name,
                                   "error", p.result_content) >>,
         results |-> AppendResult(results,
                        format_tool_result(caller_mode, id, PyStr(p.result_content), TRUE))]

\* the execution branch: running event, run_single_tool, image handling, status
\* event, result
HandleExecution(caller_mode, p, remote, results) ==
    LET running == StatusEvent(p.tool_id, p.tool_name, "running", "Input: " \o p.tool_input)
        r == run_single_tool(p.tool_name, p.tool_id, p.tool_input, remote)
        text_content == r.text_content
        image_items == SelectSeq(r.content_items, IsImage)
        status_content ==
            IF image_items = <<>> THEN text_content
            ELSE (IF text_content = "" THEN "" ELSE text_content \o "\n")
                 \o "[Tool returned " \o ToString(Len(image_items)) \o " image(s)]"
        claude_blocks ==
            (IF text_content # "" THEN << [type |-> "text", text |-> text_content] >>
             ELSE <<>>)
            \o [k \in 1..Len(SelectSeq(r.content_items, IsFullImage)) |->
                   ImageBlock(SelectSeq(r.content_items, IsFullImage)[k])]
        llm_formatted_content ==
            CASE image_items = <<>> -> PyStr(text_content)
              [] caller_mode = "Claude" ->
                    IF claude_blocks # <<>> THEN PyList(claude_blocks) ELSE PyStr("")
              [] caller_mode \in {"OpenAI", "Prompt"} -> PyStr(status_content)
              [] OTHER -> PyStr(text_content)
        update == StatusEvent(p.tool_id, p.tool_name,
                              IF r.is_error THEN "error" ELSE "completed",
                              IF ~r.is_error THEN status_content
                              ELSE "Error: " \o text_content)
        status_update ==
            IF p.tool_name = "stagehand_navigate" /\ ~r.is_error /\ r.live
            THEN [k \in DOMAIN update \cup {"browser_view"} |->
                     IF k = "browser_view" THEN "liveViewData" ELSE update[k]]
            ELSE update
    IN  IF r.raised
        THEN [raised |-> TRUE, events |-> <<running>>, results |-> results]
        ELSE [raised |-> FALSE, events |-> <<running, status_update>>,
              results |-> AppendResult(results,
                             format_tool_result(caller_mode, p.tool_id,
                                                llm_formatted_content, r.is_error))]

\* does run_single_tool reach the call_tool of the MCP client
InvokesRemote(tool_name) == get_tool(tool_name) /\ ~Falsy(related_server(tool_name))

\* ------------------------------------------------------------------------
\* ToolExecutor.execute_tools as a state machine
\* ------------------------------------------------------------------------
te_calls_in(n) ==
    { [i \in 1..n |-> MakeCall(shapes[i], i)] : shapes \in [1..n -> CallShapes] }

TEInit ==
    /\ te_phase = "idle"
    /\ te_mode = None
    /\ te_calls = <<>>
    /\ te_i = 0
    /\ te_events = <<>>
    /\ te_results = <<>>
    /\ te_marks = <<>>
    /\ te_remote = <<>>

\* execute_tools(tool_calls, caller_mode) is called
StartBatch ==
    /\ te_phase = "idle"
    /\ te_phase' = "running"
    /\ te_mode' \in CallerModes
    /\ \E n \in 0..MaxCalls : te_calls' \in te_calls_in(n)
    /\ UNCHANGED <<te_i, te_events, te_results, te_marks, te_remote>>

AfterCall(h, remote) ==
    /\ te_events' = te_events \o h.events
    /\ te_results' = h.results
    /\ te_marks' = Append(te_marks, Len(te_events) + Len(h.events))
    /\ te_remote' = Append(te_remote, remote)
    /\ te_i' = te_i + 1
    /\ te_phase' = IF h.raised THEN "raised" ELSE "running"
    /\ UNCHANGED <<te_mode, te_calls>>

\* one iteration of the loop for a call that fails to parse
ParseErrorCall ==
    /\ te_phase = "running"
    /\ te_i < Len(te_calls)
    /\ LET p == parse_tool_call(te_calls[te_i + 1])
       IN  /\ p.parse_error
           /\ AfterCall(HandleParseError(te_mode, p, te_results), [kind |-> "parse_error"])

\* one iteration of the loop for a call that parses
RunCall ==
    /\ te_phase = "running"
    /\ te_i < Len(te_calls)
    /\ LET p == parse_tool_call(te_calls[te_i + 1])
       IN  /\ ~p.parse_error
           /\ IF InvokesRemote(p.tool_name)
              THEN \E remote \in RemoteOutcomes :
                      AfterCall(HandleExecution(te_mode, p, remote, te_results), remote)
              ELSE AfterCall(HandleExecution(te_mode, p, Raised("unreached"), te_results),
                             [kind |-> "not_invoked"])

\* the loop is over: the final_tool_results event
Finish ==
    /\ te_phase = "running"
    /\ te_i = Len(te_calls)
    /\ te_events' = Append(te_events,
                           [type |-> "final_tool_results", results |-> te_results])
    /\ te_phase' = "done"
    /\ UNCHANGED <<te_mode, te_calls, te_i, te_results, te_marks, te_remote>>

TENext == StartBatch \/ ParseErrorCall \/ RunCall \/ Finish

\* ------------------------------------------------------------------------
\* BasicMemoryAgent (agent/agents/basic_memory_agent.py)
\* A text is a sequence of characters; the fixed texts of the program
\* (the interruption marker, the error messages) are kept as one element.
\* ------------------------------------------------------------------------
Ellipsis == <<".", ".", ".">>

InterruptedByUser == <<"[Interrupted by user]">>

\* the text of the user's input of a turn
UserTexts == { <<"u">> }

\* what handle_interrupt is given as heard_response
HeardTexts == { <<>>, <<"h">> }

\* _add_message(message, role) with a str message
add_message(mem, message, role) ==
    IF message = <<>> /\ role = "assistant" THEN mem
    ELSE IF mem # <<>> /\ mem[Len(mem)].role = role /\ mem[Len(mem)].content = message
         THEN mem
         ELSE Append(mem, [role |-> role, content |-> message])

\* handle_interrupt without the test of _interrupt_handled
handle_interrupt_unguarded(mem, handled, method, heard_response) ==
    LET repaired ==
            IF mem # <<>> /\ mem[Len(mem)].role = "assistant"
            THEN [mem EXCEPT ![Len(mem)].content = heard_response \o Ellipsis]
            ELSE IF heard_response # <<>>
                 THEN Append(mem, [role |-> "assistant",
                                   content |-> heard_response \o Ellipsis])
                 ELSE mem
        interrupt_role == IF method = "system" THEN "system" ELSE "user"
    IN  [memory |-> Append(repaired, [role |-> interrupt_role,
                                      content |-> InterruptedByUser]),
         interrupt_handled |-> TRUE]

\* handle_interrupt(heard_response)
handle_interrupt(mem, handled, method, heard_response) ==
    IF handled THEN [memory |-> mem, interrupt_handled |-> handled]
    ELSE LET repaired ==
                 IF mem # <<>> /\ mem[Len(mem)].role = "assistant"
                 THEN [mem EXCEPT ![Len(mem)].content = heard_response \o Ellipsis]
                 ELSE IF heard_response # <<>>
                      THEN Append(mem, [role |-> "assistant",
                                        content |-> heard_response \o Ellipsis])
                      ELSE mem
             interrupt_role == IF method = "system" THEN "system" ELSE "user"
         IN  [memory |-> Append(repaired, [role |-> interrupt_role,
                                           content |-> InterruptedByUser]),
              interrupt_handled |-> TRUE]

\* a message of the loop's message list: every kind has the same fields
Message(role, kind, text, calls, results) ==
    [role |-> role, kind |-> kind, text |-> text, calls |-> calls, results |-> results]

\* _to_messages(input_data) for an input of one text: the list for the model
\* API, made of the memory and the user's message
to_messages(mem, text_prompt) ==
    [i \in 1..Len(mem) |-> Message(mem[i].role, "memory", mem[i].content, <<>>, <<>>)]
        \o << Message("user", "input", text_prompt, <<>>, <<>>) >>

\* StreamJSONDetector as a value: reset() and process_chunk(chunk)
NewDetector == [buffer |-> <<>>, potential |-> <<>>, completed |-> <<>>, ranges |-> <<>>]

process_chunk(det, chunk) ==
    LET old_length == Len(det.buffer)
        buf == det.buffer \o chunk
        potential == find_potential_starts(buf, old_length, det.potential, det.ranges)
        t == try_parse_jsons(buf, potential, det.ranges, det.completed)
    IN  [det |-> [buffer |-> buf, potential |-> t.remaining_potential,
                  completed |-> t.completed, ranges |-> t.ranges],
         new_jsons |-> t.new_jsons]

\* the JSON text a prompt-mode model writes to ask for tool search of server srv
ToolJson ==
    <<"{", Quote, "m", "c", "p", "_", "s", "e", "r", "v", "e", "r", Quote, ":",
      Quote, "s", "r", "v", Quote, ",", Quote, "t", "o", "o", "l", Quote, ":",
      Quote, "s", "e", "a", "r", "c", "h", Quote, ",", Quote, "a", "r", "g", "u",
      "m", "e", "n", "t", "s", Quote, ":", Quote, "{", "}", Quote, "}">>

\* a JSON object that has none of the keys mcp_server, tool, arguments
OtherJson == <<"{", Quote, "a", Quote, ":", "1", "}">>

\* _process_tool_from_prompt_json(data): the items with the three keys set and
\* decodable arguments become tool dicts, numbered by their position among them;
\* input is what call.get("input", call.get("args")) reads from the dict
RECURSIVE process_tool_from_prompt_json(_, _)
process_tool_from_prompt_json(data, parsed_tools) ==
    IF data = <<>> THEN parsed_tools
    ELSE process_tool_from_prompt_json(Tail(data),
            IF Head(data) = ToolJson
            THEN Append(parsed_tools,
                        [type |-> "dict", name |-> "search", server |-> "srv", input |-> "{}",
                         id |-> "prompt_tool_" \o ToString(Len(parsed_tools))])
            ELSE parsed_tools)

\* the tool calls a native model asks for: ToolCallObject from the OpenAI
\* compatible stream, tool_use dicts from the Claude stream; the tool manager
\* has no tool named ghost
OpenAICalls ==
    { [type |-> "ToolCallObject", id |-> "call_1", name |-> "search", arguments |-> "{}"],
      [type |-> "ToolCallObject", id |-> "call_1", name |-> "ghost", arguments |-> "{}"] }

ClaudeCalls ==
    { [type |-> "dict", id |-> "toolu_1", name |-> "search", input |-> "{}"] }

\* what MCPClient.call_tool does: it returns a response or raises
ToolOutcomes == {"response", "raise"}

\* _parse_tool_call(call)
agent_parse_tool_call(call) ==
    CASE call.type = "ToolCallObject" ->
            IF call.arguments = "{}"
            THEN [tool_name |-> call.name, tool_id |-> call.id, is_error |-> FALSE,
                  result_content |-> "", parse_error |-> FALSE]
            ELSE [tool_name |-> call.name, tool_id |-> call.id, is_error |-> TRUE,
                  result_content |-> "Error: Invalid arguments format for tool '"
                                         \o call.name \o "'.",
                  parse_error |-> TRUE]
      [] call.type = "dict" ->
            IF Falsy(call.id) \/ Falsy(call.name)
            THEN [tool_name |-> call.name, tool_id |-> call.id, is_error |-> TRUE,
                  result_content |-> "Error: Invalid tool call structure from LLM.",
                  parse_error |-> TRUE]
            ELSE [tool_name |-> call.name, tool_id |-> call.id, is_error |-> FALSE,
                  result_content |-> "", parse_error |-> FALSE]

\* _run_single_tool(client, tool_name, tool_id, tool_input)
agent_run_single_tool(tool_name, outcome) ==
    IF ~get_tool(tool_name)
    THEN [is_error |-> TRUE, remote |-> FALSE,
          result_content |-> "Error: Tool '" \o tool_name \o "' is not available."]
    ELSE IF outcome = "response"
         THEN [is_error |-> FALSE, remote |-> TRUE, result_content |-> "response"]
         ELSE [is_error |-> TRUE, remote |-> TRUE,
               result_content |-> "Error executing tool '" \o tool_name \o "': boom"]

\* _format_tool_result(caller_mode, tool_id, result_content, is_error)
agent_format_tool_result(caller_mode, tool_id, result_content, is_error) ==
    CASE caller_mode = "Claude" ->
            [type |-> "tool_result", tool_use_id |-> tool_id,
             content |-> result_content, is_error |-> is_error]
      [] caller_mode = "OpenAI" ->
            [role |-> "tool", tool_call_id |-> tool_id, content |-> result_content]
      [] OTHER ->
            [tool_id |-> tool_id, content |-> result_content, is_error |-> is_error]

\* _execute_tools when the server manager or the tool manager is missing
\* (lines 320-343): call.get raises AttributeError on a ToolCallObject, and
\* only the Claude and OpenAI modes get an error result
RECURSIVE execute_tools_unconfigured(_, _, _)
execute_tools_unconfigured(tool_calls, caller_mode, results) ==
    IF tool_calls = <<>> THEN [raised |-> FALSE, results |-> results, ran |-> 0]
    ELSE LET call == Head(tool_calls)
             error_content == "Error: Tool execution environment not configured."
         IN  IF call.type # "dict"
             THEN [raised |-> TRUE, results |-> results, ran |-> 0]
             ELSE execute_tools_unconfigured(Tail(tool_calls), caller_mode,
                    CASE caller_mode = "Claude" ->
                            Append(results,
                                   [type |-> "tool_result", tool_use_id |-> call.id,
                                    content |-> error_content, is_error |-> TRUE])
                      [] caller_mode = "OpenAI" ->
                            Append(results,
                                   [role |-> "tool", tool_call_id |-> call.id,
                                    content |-> error_content])
                      [] OTHER -> results)

\* the for loop of _execute_tools (lines 349-374); outcomes[i] is what the
\* remote call of the i-th call would do; ran counts the remote calls made
RECURSIVE execute_tools_loop(_, _, _, _, _)
execute_tools_loop(tool_calls, caller_mode, outcomes, results, ran) ==
    IF tool_calls = <<>> THEN [raised |-> FALSE, results |-> results, ran |-> ran]
    ELSE LET p == agent_parse_tool_call(Head(tool_calls))
             r == IF p.parse_error
                  THEN [is_error |-> p.is_error, remote |-> FALSE,
                        result_content |-> p.result_content]
                  ELSE agent_run_single_tool(p.tool_name, Head(outcomes))
         IN  execute_tools_loop(Tail(tool_calls), caller_mode, Tail(outcomes),
                Append(results,
                       agent_format_tool_result(caller_mode, p.tool_id,
                                                r.result_content, r.is_error)),
                ran + (IF r.remote THEN 1 ELSE 0))

\* the result of a tool that did not fail
Succeeded(result) == result.content = "response"

\* an _execute_tools that leaves the failed tools out of its results
agent_execute_tools_dropping_failures(tool_calls, caller_mode, configured, outcomes) ==
    LET x == execute_tools_loop(tool_calls, caller_mode, outcomes, <<>>, 0)
    IN  [x EXCEPT !.results = SelectSeq(@, Succeeded)]

\* _execute_tools(tool_calls, caller_mode); configured: the server manager and
\* the tool manager are both there
agent_execute_tools(tool_calls, caller_mode, configured, outcomes) ==
    IF ~configured THEN execute_tools_unconfigured(tool_calls, caller_mode, <<>>)
    ELSE execute_tools_loop(tool_calls, caller_mode, outcomes, <<>>, 0)

\* ------------------------------------------------------------------------
\* The interaction loops.  A handler is an operator on the record s of the
\* agent's fields and the loop's locals; s.trace is the observer ag_trace,
\* s.pc the position the loop goes to.
\* ------------------------------------------------------------------------
Log(s, entry) == [s EXCEPT !.trace = Append(@, entry)]

\* yield text: the caller of chat receives it
Yield(s, text) == Log(s, [kind |-> "yield", text |-> text])

\* the text chunks of a model that answers in native mode, and of one that
\* answers in prompt mode
NativeChunks == { <<"a">> }

PromptChunks == { <<"a">>, ToolJson, OtherJson }

\* the str events AsyncLLM.chat_completion yields from its except clauses
\* (openai_compatible_llm.py lines 200-225)
ConnectionErrorText ==
    <<"Error calling the chat endpoint: Connection error. Failed to connect to the LLM API.">>

RateLimitErrorText ==
    <<"Error calling the chat endpoint: Rate limit exceeded. Please try again later.">>

APIErrorText ==
    <<"Error calling the chat endpoint: Error occurred while generating response.">>

OpenAIErrorTexts == { ConnectionErrorText, RateLimitErrorText, APIErrorText }

\* the message of the error event of ClaudeAsyncLLM.chat_completion
\* (claude_llm.py lines 238-243)
ClaudeErrorText == <<"Claude API error: boom">>

\* AsyncLLM.chat_completion line 98: the tools that reach the API
available_tools(llm_support_tools, tools) ==
    IF llm_support_tools THEN tools ELSE "NOT_GIVEN"

\* _openai_tool_interaction_loop lines 685-710: one model call
openai_call(s) ==
    LET current_system_prompt ==
            IF s.prompt_mode_flag THEN "system+mcp_prompt" ELSE "system"
        tools_for_api == IF s.prompt_mode_flag THEN "None" ELSE "tools"
    IN  [Log(s, [kind |-> "call", prompt_mode |-> s.prompt_mode_flag,
                 system |-> current_system_prompt, tools |-> tools_for_api,
                 available_tools |-> available_tools(s.support_tools, tools_for_api),
                 messages |-> s.messages, memory |-> s.memory])
            EXCEPT !.pending_tool_calls = <<>>,
                   !.current_turn_text = <<>>,
                   !.pc = "stream"]

\* lines 815-887: what the OpenAI loop does once the stream is left
openai_after_stream(s, detected_prompt_json, assistant_message_for_api, outcomes) ==
    IF detected_prompt_json # <<>>
    THEN LET m == add_message(s.memory, s.current_turn_text, "assistant")
             parsed_tools == process_tool_from_prompt_json(detected_prompt_json, <<>>)
         IN  IF parsed_tools = <<>>
             THEN [s EXCEPT !.memory = m, !.pc = "call"]
             ELSE LET x == agent_execute_tools(parsed_tools, "Prompt", s.machinery,
                                               outcomes)
                      t == Log([s EXCEPT !.memory = m],
                               [kind |-> "tools", mode |-> "Prompt",
                                calls |-> parsed_tools, ran |-> x.ran,
                                raised |-> x.raised, results |-> x.results])
                  IN  IF x.raised THEN [t EXCEPT !.pc = "raised"]
                      ELSE IF x.results # <<>>
                      THEN [t EXCEPT !.messages =
                                        Append(@, Message("user", "tool_results", <<>>,
                                                          <<>>, x.results)),
                                     !.pc = "call"]
                      ELSE [Log(t, [kind |-> "return"]) EXCEPT !.pc = "idle"]
    ELSE IF s.pending_tool_calls # <<>> /\ assistant_message_for_api # <<>>
    THEN LET m == IF s.current_turn_text # <<>>
                  THEN add_message(s.memory, s.current_turn_text, "assistant")
                  ELSE s.memory
             x == agent_execute_tools(s.pending_tool_calls, "OpenAI", s.machinery,
                                      outcomes)
             t == Log([s EXCEPT !.memory = m,
                                !.messages = @ \o assistant_message_for_api],
                      [kind |-> "tools", mode |-> "OpenAI",
                       calls |-> s.pending_tool_calls, ran |-> x.ran,
                       raised |-> x.raised, results |-> x.results])
         IN  IF x.raised THEN [t EXCEPT !.pc = "raised"]
             ELSE IF x.results = <<>>
             THEN [Log(t, [kind |-> "return"]) EXCEPT !.pc = "idle"]
             ELSE [t EXCEPT !.messages =
                               Append(@, Message("tool", "tool_results", <<>>, <<>>,
                                                 x.results)),
                            !.pc = "call"]
    ELSE LET m == IF s.current_turn_text # <<>>
                  THEN add_message(s.memory, s.current_turn_text, "assistant")
                  ELSE s.memory
         IN  [Log(Log(s, [kind |-> "final", text |-> s.current_turn_text,
                          before |-> s.memory, after |-> m]),
                  [kind |-> "return"])
                EXCEPT !.memory = m, !.pc = "idle"]

\* lines 756-758: a str event in native mode
openai_text_native(s, event) ==
    Yield([Log(s, [kind |-> "event", type |-> "text", text |-> event])
             EXCEPT !.current_turn_text = @ \o event],
          event)

\* a str event in prompt mode after which the loop stays in the stream
\* whatever the detector returned
openai_text_prompt_without_break(s, event, outcomes) ==
    LET d == process_chunk(s.json_detector, event)
    IN  Yield([Log(s, [kind |-> "event", type |-> "text", text |-> event,
                       detected |-> d.new_jsons])
                 EXCEPT !.current_turn_text = @ \o event,
                        !.json_detector = d.det],
              event)

\* lines 716-749: a str event in prompt mode; the entry of the trace keeps
\* what process_chunk returned for the chunk
openai_text_prompt(s, event, outcomes) ==
    LET d == process_chunk(s.json_detector, event)
        t == [Log(s, [kind |-> "event", type |-> "text", text |-> event,
                      detected |-> d.new_jsons])
                EXCEPT !.current_turn_text = @ \o event,
                       !.json_detector = d.det]
    IN  IF d.new_jsons # <<>>
        THEN openai_after_stream(t, d.new_jsons, <<>>, outcomes)
        ELSE Yield(t, event)

\* lines 759-783: the list of ToolCallObject in native mode
openai_tool_calls(s, event, outcomes) ==
    LET t == [Log(s, [kind |-> "event", type |-> "tool_calls", text |-> <<>>])
                EXCEPT !.pending_tool_calls = event]
        assistant_message_for_api ==
            << Message("assistant", "tool_calls", s.current_turn_text, event, <<>>) >>
    IN  openai_after_stream(t, <<>>, assistant_message_for_api, outcomes)

\* lines 784-812: the branch for the "__API_NOT_SUPPORT_TOOLS__" event
openai_not_support_tools(s) ==
    [Log(s, [kind |-> "restart"])
       EXCEPT !.prompt_mode_flag = TRUE,
              !.tool_manager_enabled = FALSE,
              !.json_detector = NewDetector,
              !.pc = "call"]

\* an event of the OpenAI compatible stream: a str or a list of ToolCallObject
StrEvent(text) == [kind |-> "str", text |-> text, calls |-> <<>>]

ListEvent(calls) == [kind |-> "list", text |-> <<>>, calls |-> calls]

\* the str that chat_completion yields when the API refuses the tools
\* (openai_compatible_llm.py line 218)
NotSupportToolsMarker == <<"__API_NOT_SUPPORT_TOOLS__">>

\* lines 755-803: the native-mode branches, tried in the order of the source
openai_native_event(s, event, outcomes) ==
    IF event.kind = "str" THEN openai_text_native(s, event.text)
    ELSE IF event.kind = "list" THEN openai_tool_calls(s, event.calls, outcomes)
    ELSE IF event = StrEvent(NotSupportToolsMarker) THEN openai_not_support_tools(s)
    ELSE s

\* lines 714-753: the prompt-mode branches
openai_prompt_event(s, event, outcomes) ==
    IF event.kind = "str" THEN openai_text_prompt(s, event.text, outcomes)
    ELSE s

\* lines 713-803: one event of the stream
openai_event(s, event, outcomes) ==
    IF s.prompt_mode_flag THEN openai_prompt_event(s, event, outcomes)
    ELSE openai_native_event(s, event, outcomes)

\* the stream ends with neither a break nor a restart
openai_stream_end(s) ==
    openai_after_stream(Log(s, [kind |-> "event", type |-> "end", text |-> <<>>]),
                        <<>>, <<>>, <<>>)

\* _claude_tool_interaction_loop lines 516-518: one model call
claude_call(s) ==
    [Log(s, [kind |-> "call", prompt_mode |-> FALSE, system |-> "system",
             tools |-> "tools", available_tools |-> "tools",
             messages |-> s.messages, memory |-> s.memory])
        EXCEPT !.pending_tool_calls = <<>>,
               !.assistant_content = <<>>,
               !.pc = "stream"]

\* lines 521-533: a text_delta event
claude_text_delta(s, text) ==
    LET c == s.assistant_content
    IN  Yield([Log(s, [kind |-> "event", type |-> "text", text |-> text])
                 EXCEPT !.current_turn_text = @ \o text,
                        !.assistant_content =
                            IF c = <<>> \/ c[Len(c)].type # "text"
                            THEN Append(c, [type |-> "text", text |-> text])
                            ELSE [c EXCEPT ![Len(c)].text = @ \o text]],
              text)

\* lines 538-551: a tool_use_complete event
claude_tool_use_complete(s, tool_call_data) ==
    [Log(s, [kind |-> "event", type |-> "tool_use", text |-> <<>>])
       EXCEPT !.pending_tool_calls = Append(@, tool_call_data),
              !.assistant_content =
                  Append(@, [type |-> "tool_use", text |-> <<>>,
                             call |-> tool_call_data])]

\* the chunk the Claude loop yields for an error event
ErrorChunk(message) == <<"[Error from LLM: ">> \o message \o <<"]">>

\* an error event after which the loop calls the model again
claude_error_retrying(s, message) ==
    [Yield(Log(s, [kind |-> "event", type |-> "error", text |-> message]),
           ErrorChunk(message))
       EXCEPT !.pc = "call"]

\* lines 559-562: an error event
claude_error(s, message) ==
    [Log(Yield(Log(s, [kind |-> "event", type |-> "error", text |-> message]),
               ErrorChunk(message)),
         [kind |-> "return"])
       EXCEPT !.pc = "idle"]

IsTextBlock(block) == block.type = "text"

IsToolUseBlock(block) == block.type = "tool_use"

KeptBlock(block) == ~(block.type = "text" /\ strip(block.text) = <<>>)

BlockText(blocks) == Concat([i \in 1..Len(blocks) |-> blocks[i].text])

\* lines 564-630: what the Claude loop does once the stream is left
claude_after_stream(s, outcomes) ==
    IF s.pending_tool_calls # <<>>
    THEN LET filtered_assistant_content == SelectSeq(s.assistant_content, KeptBlock)
             assistant_text_for_memory ==
                 strip(BlockText(SelectSeq(filtered_assistant_content, IsTextBlock)))
             tool_uses == SelectSeq(filtered_assistant_content, IsToolUseBlock)
             a == IF filtered_assistant_content = <<>> THEN s
                  ELSE [s EXCEPT
                          !.messages =
                              Append(@, Message("assistant", "content",
                                                assistant_text_for_memory,
                                                [i \in 1..Len(tool_uses) |->
                                                    tool_uses[i].call],
                                                <<>>)),
                          !.memory = IF assistant_text_for_memory # <<>>
                                     THEN add_message(@, assistant_text_for_memory,
                                                      "assistant")
                                     ELSE @]
             x == agent_execute_tools(s.pending_tool_calls, "Claude", s.machinery,
                                      outcomes)
             t == Log(a, [kind |-> "tools", mode |-> "Claude",
                          calls |-> s.pending_tool_calls, ran |-> x.ran,
                          raised |-> x.raised, results |-> x.results])
         IN  IF x.raised THEN [t EXCEPT !.pc = "raised"]
             ELSE IF x.results = <<>>
             THEN [Log(t, [kind |-> "return"]) EXCEPT !.pc = "idle"]
             ELSE [t EXCEPT !.messages =
                               Append(@, Message("user", "tool_results", <<>>, <<>>,
                                                 x.results)),
                            !.pc = "call"]
    ELSE LET m == IF s.current_turn_text # <<>>
                  THEN add_message(s.memory, s.current_turn_text, "assistant")
                  ELSE s.memory
         IN  [Log(Log(s, [kind |-> "final", text |-> s.current_turn_text,
                          before |-> s.memory, after |-> m]),
                  [kind |-> "return"])
                EXCEPT !.memory = m, !.pc = "idle"]

\* a message_stop event, or the end of the stream
claude_message_stop(s, outcomes) ==
    claude_after_stream(Log(s, [kind |-> "event", type |-> "end", text |-> <<>>]),
                        outcomes)

\* ------------------------------------------------------------------------
\* The agent as a state machine.  It is built with use_mcpp set, an
\* mcp_prompt and a tool manager that has tools, so that chat_with_memory
\* enters one of the two interaction loops.
\* ------------------------------------------------------------------------
AgentState ==
    [memory |-> memory, messages |-> messages, prompt_mode_flag |-> prompt_mode_flag,
     tool_manager_enabled |-> tool_manager_enabled, json_detector |-> json_detector,
     support_tools |-> support_tools, current_turn_text |-> current_turn_text,
     pending_tool_calls |-> pending_tool_calls, assistant_content |-> assistant_content,
     machinery |-> tool_machinery, pc |-> ag_pc, trace |-> ag_trace]

Becomes(s) ==
    /\ memory' = s.memory
    /\ messages' = s.messages
    /\ prompt_mode_flag' = s.prompt_mode_flag
    /\ tool_manager_enabled' = s.tool_manager_enabled
    /\ json_detector' = s.json_detector
    /\ support_tools' = s.support_tools
    /\ current_turn_text' = s.current_turn_text
    /\ pending_tool_calls' = s.pending_tool_calls
    /\ assistant_content' = s.assistant_content
    /\ ag_pc' = s.pc
    /\ ag_trace' = s.trace

\* the sequences of remote outcomes for n tool calls
OutcomesFor(n) == [1..n -> ToolOutcomes]

AGInit ==
    /\ llm_type = None
    /\ interrupt_method = None
    /\ tool_machinery = FALSE
    /\ memory = <<>>
    /\ prompt_mode_flag = FALSE
    /\ interrupt_handled = FALSE
    /\ json_detector = NewDetector
    /\ tool_manager_enabled = FALSE
    /\ support_tools = TRUE
    /\ ag_pc = "new"
    /\ messages = <<>>
    /\ current_turn_text = <<>>
    /\ pending_tool_calls = <<>>
    /\ assistant_content = <<>>
    /\ ag_turn = 0
    /\ ag_model_calls = 0
    /\ ag_deltas = 0
    /\ ag_interrupts = [total |-> 0, turn |-> 0, heard |-> <<>>]
    /\ ag_trace = <<>>

\* __init__ (lines 37-99) of the agent and of its model
Construct(methods) ==
    \E llm \in {"Claude", "OpenAI"}, method \in methods :
        /\ ag_pc = "new"
        /\ llm_type' = llm
        /\ interrupt_method' = method
        /\ tool_machinery' = TRUE
        /\ tool_manager_enabled' = TRUE
        /\ ag_pc' = "idle"
        /\ UNCHANGED <<memory, prompt_mode_flag, interrupt_handled, json_detector,
                       support_tools, messages, current_turn_text, pending_tool_calls,
                       assistant_content, ag_turn, ag_model_calls, ag_deltas, ag_interrupts,
                       ag_trace>>

\* the agent is built with the default interrupt_method
NewAgent == Construct({"user"})

\* the agent is built with either interrupt_method
NewAgentWithMethod == Construct({"system", "user"})

\* chat_with_memory lines 910-971, up to the first model call of the loop
StartTurn ==
    \E text_prompt \in UserTexts :
        /\ ag_pc \in {"idle", "raised"}
        /\ ag_model_calls < MaxModelCalls
        /\ interrupt_handled' = FALSE
        /\ prompt_mode_flag' = FALSE
        /\ tool_manager_enabled' = TRUE
        /\ json_detector' = NewDetector
        /\ messages' = to_messages(memory, text_prompt)
        /\ memory' = add_message(memory, text_prompt, "user")
        /\ current_turn_text' = <<>>
        /\ pending_tool_calls' = <<>>
        /\ assistant_content' = <<>>
        /\ ag_pc' = "call"
        /\ ag_turn' = ag_turn + 1
        /\ ag_deltas' = 0
        /\ ag_interrupts' = [ag_interrupts EXCEPT !.turn = 0]
        /\ ag_trace' = <<>>
        /\ UNCHANGED <<llm_type, interrupt_method, tool_machinery, support_tools,
                       ag_model_calls>>

LoopFrame == UNCHANGED <<llm_type, interrupt_method, tool_machinery, interrupt_handled,
                         ag_turn, ag_interrupts>>

\* the loop issues a model call
CallModel ==
    /\ ag_pc = "call"
    /\ ag_model_calls < MaxModelCalls
    /\ Becomes(IF llm_type = "Claude" THEN claude_call(AgentState)
               ELSE openai_call(AgentState))
    /\ ag_model_calls' = ag_model_calls + 1
    /\ ag_deltas' = 0
    /\ LoopFrame

\* native tools reached the API of the OpenAI compatible model
NativeToolsSent == ~prompt_mode_flag /\ support_tools

OpenAIStream == llm_type = "OpenAI" /\ ag_pc = "stream"

ClaudeStream == llm_type = "Claude" /\ ag_pc = "stream"

\* the stream is over once the handler of its last event is done
Exhausted(s) == [s EXCEPT !.pc = IF @ = "stream" THEN "exhausted" ELSE @]

OpenAITextNative ==
    \E text \in NativeChunks :
        /\ OpenAIStream /\ ~prompt_mode_flag
        /\ ag_deltas < MaxDeltas
        /\ Becomes(openai_event(AgentState, StrEvent(text), <<>>))
        /\ ag_deltas' = ag_deltas + 1
        /\ UNCHANGED ag_model_calls
        /\ LoopFrame

OpenAITextPrompt ==
    \E text \in PromptChunks, outcomes \in OutcomesFor(1) :
        /\ OpenAIStream /\ prompt_mode_flag
        /\ ag_deltas < MaxDeltas
        /\ Becomes(openai_event(AgentState, StrEvent(text), outcomes))
        /\ ag_deltas' = ag_deltas + 1
        /\ UNCHANGED ag_model_calls
        /\ LoopFrame

\* an except clause of chat_completion yields its text, and the stream ends
OpenAIError ==
    \E text \in OpenAIErrorTexts :
        /\ OpenAIStream
        /\ Becomes(Exhausted(openai_event(AgentState, StrEvent(text), <<>>)))
        /\ UNCHANGED ag_deltas
        /\ UNCHANGED ag_model_calls
        /\ LoopFrame

OpenAIToolCalls ==
    \E call \in OpenAICalls, outcomes \in OutcomesFor(1) :
        /\ OpenAIStream /\ NativeToolsSent
        /\ Becomes(openai_event(AgentState, ListEvent(<<call>>), outcomes))
        /\ UNCHANGED ag_deltas
        /\ UNCHANGED ag_model_calls
        /\ LoopFrame

\* the API refuses the tools: chat_completion turns support_tools off, yields
\* the marker and returns (openai_compatible_llm.py lines 212-219)
OpenAINotSupportTools ==
    /\ OpenAIStream /\ NativeToolsSent
    /\ Becomes(Exhausted(openai_event([AgentState EXCEPT !.support_tools = FALSE],
                                      StrEvent(NotSupportToolsMarker), <<>>)))
    /\ UNCHANGED ag_deltas
    /\ UNCHANGED ag_model_calls
    /\ LoopFrame

OpenAIStreamEnd ==
    /\ llm_type = "OpenAI" /\ ag_pc \in {"stream", "exhausted"}
    /\ Becomes(openai_stream_end(AgentState))
    /\ UNCHANGED <<ag_deltas, ag_model_calls>>
    /\ LoopFrame

ClaudeTextDelta ==
    \E text \in NativeChunks :
        /\ ClaudeStream
        /\ ag_deltas < MaxDeltas
        /\ Becomes(claude_text_delta(AgentState, text))
        /\ ag_deltas' = ag_deltas + 1
        /\ UNCHANGED ag_model_calls
        /\ LoopFrame

\* the streams of the model carry one tool_use block at most
ClaudeToolUseComplete ==
    \E tool_call_data \in ClaudeCalls :
        /\ ClaudeStream
        /\ pending_tool_calls = <<>>
        /\ Becomes(claude_tool_use_complete(AgentState, tool_call_data))
        /\ UNCHANGED ag_deltas
        /\ UNCHANGED ag_model_calls
        /\ LoopFrame

ClaudeError ==
    /\ ClaudeStream
    /\ Becomes(claude_error(AgentState, ClaudeErrorText))
    /\ UNCHANGED ag_deltas
    /\ UNCHANGED ag_model_calls
    /\ LoopFrame

ClaudeMessageStop ==
    \E outcomes \in OutcomesFor(Len(pending_tool_calls)) :
        /\ ClaudeStream
        /\ Becomes(claude_message_stop(AgentState, outcomes))
        /\ UNCHANGED <<ag_deltas, ag_model_calls>>
        /\ LoopFrame

\* handle_interrupt(heard_response), called by the owner of the agent
HandleInterrupt ==
    \E heard_response \in HeardTexts :
        /\ ag_turn >= 1
        /\ ag_interrupts.total < MaxInterrupts
        /\ LET r == handle_interrupt(memory, interrupt_handled, interrupt_method,
                                     heard_response)
           IN  /\ memory' = r.memory
               /\ interrupt_handled' = r.interrupt_handled
        /\ ag_interrupts' = [total |-> ag_interrupts.total + 1,
                              turn |-> ag_interrupts.turn + 1,
                              heard |-> heard_response]
        /\ UNCHANGED <<llm_type, interrupt_method, tool_machinery, prompt_mode_flag,
                       json_detector, tool_manager_enabled, support_tools, ag_pc,
                       messages, current_turn_text, pending_tool_calls,
                       assistant_content, ag_turn, ag_model_calls, ag_deltas, ag_trace>>

AGNext ==
    \/ NewAgent
    \/ StartTurn
    \/ CallModel
    \/ OpenAITextNative
    \/ OpenAIError
    \/ OpenAIToolCalls
    \/ OpenAINotSupportTools
    \/ OpenAIStreamEnd
    \/ ClaudeTextDelta
    \/ ClaudeToolUseComplete
    \/ ClaudeError
    \/ ClaudeMessageStop

\* one of the two interaction loops run on its own: the agent's
\* prompt_mode_flag and tool managers are inputs of the loop
EnterLoop ==
    \E llm \in {"Claude", "OpenAI"}, flag \in BOOLEAN, configured \in BOOLEAN,
       text_prompt \in UserTexts :
        /\ ag_pc = "new"
        /\ llm_type' = llm
        /\ interrupt_method' = "user"
        /\ prompt_mode_flag' = (flag /\ llm = "OpenAI")
        /\ tool_machinery' = configured
        /\ tool_manager_enabled' = configured
        /\ messages' = to_messages(<<>>, text_prompt)
        /\ memory' = add_message(<<>>, text_prompt, "user")
        /\ ag_pc' = "call"
        /\ ag_turn' = 1
        /\ UNCHANGED <<interrupt_handled, json_detector, support_tools,
                       current_turn_text, pending_tool_calls, assistant_content,
                       ag_model_calls, ag_deltas, ag_interrupts, ag_trace>>

LoopNext ==
    \/ EnterLoop
    \/ CallModel
    \/ OpenAITextNative
    \/ OpenAITextPrompt
    \/ OpenAIError
    \/ OpenAIToolCalls
    \/ OpenAINotSupportTools
    \/ OpenAIStreamEnd
    \/ ClaudeTextDelta
    \/ ClaudeToolUseComplete
    \/ ClaudeError
    \/ ClaudeMessageStop

\* the agent with a model that answers in text only, and an owner that
\* interrupts it
INNext ==
    \/ NewAgentWithMethod
    \/ StartTurn
    \/ CallModel
    \/ OpenAITextNative
    \/ OpenAIStreamEnd
    \/ ClaudeTextDelta
    \/ ClaudeMessageStop
    \/ HandleInterrupt

Init == SDInit /\ JDInit /\ TEInit /\ AGInit /\ CSInit /\ PXInit

SpecDivider == Init /\ [][SDNext /\ UNCHANGED <<jd_vars, te_vars, ag_vars, cs_vars, px_vars>>]_vars

SpecComma == Init /\ [][CSNext /\ UNCHANGED <<sd_vars, jd_vars, te_vars, ag_vars, px_vars>>]_vars

SpecProxy ==
    Init /\ [][PXNext /\ UNCHANGED <<sd_vars, jd_vars, te_vars, ag_vars, cs_vars>>]_vars

SpecJSON == Init /\ [][JDNext /\ UNCHANGED <<sd_vars, te_vars, ag_vars, cs_vars, px_vars>>]_vars

SpecTools == Init /\ [][TENext /\ UNCHANGED <<sd_vars, jd_vars, ag_vars, cs_vars, px_vars>>]_vars

SpecAgent == Init /\ [][AGNext /\ UNCHANGED <<sd_vars, jd_vars, te_vars, cs_vars, px_vars>>]_vars

SpecLoop == Init /\ [][LoopNext /\ UNCHANGED <<sd_vars, jd_vars, te_vars, cs_vars, px_vars>>]_vars

SpecInterrupt == Init /\ [][INNext /\ UNCHANGED <<sd_vars, jd_vars, te_vars, cs_vars, px_vars>>]_vars

\* ------------------------------------------------------------------------
\* SentenceDivider: what a consumer of process_stream observes
\* ------------------------------------------------------------------------
IsUnit(x) == x.kind = "unit"

IsDict(x) == x.kind = "dict"

IsBoundaryUnit(x) ==
    IsUnit(x) /\ Len(x.tags) = 1 /\ x.tags[1].state \in {"start", "end", "self"}

IsTextUnit(x) == IsUnit(x) /\ ~IsBoundaryUnit(x)

DictsOf(items) == SelectSeq(items, IsDict)

RECURSIVE FedText(_)
FedText(items) ==
    IF items = <<>> THEN <<>>
    ELSE (IF Head(items).kind = "str" THEN Head(items).text ELSE <<>>)
         \o FedText(Tail(items))

RECURSIVE YieldedText(_)
YieldedText(items) ==
    IF items = <<>> THEN <<>>
    ELSE (IF IsUnit(Head(items)) THEN Head(items).text ELSE <<>>)
         \o YieldedText(Tail(items))

\* the 1-based index in items of the j-th dict
RECURSIVE DictIndex(_, _, _)
DictIndex(items, j, k) ==
    IF k > Len(items) THEN 0
    ELSE IF IsDict(items[k])
         THEN (IF j = 1 THEN k ELSE DictIndex(items, j - 1, k + 1))
         ELSE DictIndex(items, j, k + 1)

RECURSIVE IsSubsequence(_, _)
IsSubsequence(s, t) ==
    IF s = <<>> THEN TRUE
    ELSE IF t = <<>> THEN FALSE
    ELSE IF Head(s) = Head(t) THEN IsSubsequence(Tail(s), Tail(t))
    ELSE IsSubsequence(s, Tail(t))

\* the buffer holds nothing the drain loop would turn into a unit: no tag, no
\* first-sentence comma split, no complete sentence
Drained(buf, first, ffr) ==
    \/ strip(buf) = <<>>
    \/ /\ \A k \in {"start", "end", "self"}, i \in 1..Len(valid_tags) :
              ~contains(buf, Pattern(k, valid_tags[i]))
       /\ ~(first /\ ffr /\ contains_comma(buf))
       /\ segment_text_by_regex(buf).sentences = <<>>

\* the configured tag that starts at 0-based position i of text, if any
TagAt(text, i) ==
    LET hits == {c \in {ExtractOrder[n] : n \in 1..Len(ExtractOrder)} :
                    MatchAt(text, Pattern(c.kind, c.tag), i)}
    IN  IF hits = {} THEN <<>> ELSE <<CHOOSE c \in hits : TRUE>>

\* the configured tags of text, read left to right, are properly nested
RECURSIVE WellNested(_, _, _)
WellNested(text, i, open) ==
    IF i >= Len(text) THEN open = <<>>
    ELSE LET m == TagAt(text, i)
         IN  IF m = <<>> THEN WellNested(text, i + 1, open)
             ELSE LET c == m[1]
                      next == i + Len(Pattern(c.kind, c.tag))
                  IN  CASE c.kind = "start" -> WellNested(text, next, Append(open, c.tag))
                        [] c.kind = "end" ->
                              /\ open # <<>>
                              /\ open[Len(open)] = c.tag
                              /\ WellNested(text, next, SubSeq(open, 1, Len(open) - 1))
                        [] OTHER -> WellNested(text, next, open)

\* the tags a consumer knows to be open after the items it has received
RECURSIVE OpenAfter(_, _)
OpenAfter(items, open) ==
    IF items = <<>> THEN open
    ELSE LET x == Head(items)
         IN  IF ~IsBoundaryUnit(x) THEN OpenAfter(Tail(items), open)
             ELSE LET t == x.tags[1]
                  IN  CASE t.state = "start" -> OpenAfter(Tail(items), Append(open, t.name))
                        [] t.state = "end" /\ open # <<>> /\ open[Len(open)] = t.name ->
                              OpenAfter(Tail(items), SubSeq(open, 1, Len(open) - 1))
                        [] OTHER -> OpenAfter(Tail(items), open)

ExpectedTags(open) ==
    IF open = <<>> THEN << [name |-> <<>>, state |-> "none"] >>
    ELSE [i \in 1..Len(open) |-> [name |-> open[i], state |-> "inside"]]

\* ------------------------------------------------------------------------
\* Claims on SentenceDivider (specification SpecDivider)
\* ------------------------------------------------------------------------

\* C1: once a stream has ended and been flushed, the text of all yielded units,
\* concatenated, is the text that was fed, whitespace aside: nothing is dropped
\* and nothing is emitted twice.
C1_NoDataLoss ==
    sd_phase = "done" => NoSpace(YieldedText(sd_out)) = NoSpace(FedText(sd_fed))

\* C2: every dict comes out exactly once, unchanged and in input order; what was
\* yielded before a dict holds only text fed before it; and once a dict has been
\* received it is the last item yielded so far, with no tag or complete sentence
\* left waiting in the buffer.
C2_ControlPassThrough ==
    /\ DictsOf(sd_out) = DictsOf(sd_fed)
    /\ \A j \in 1..Len(DictsOf(sd_out)) :
          LET ko == DictIndex(sd_out, j, 1)
              kf == DictIndex(sd_fed, j, 1)
          IN  IsSubsequence(NoSpace(YieldedText(SubSeq(sd_out, 1, ko - 1))),
                            NoSpace(FedText(SubSeq(sd_fed, 1, kf - 1))))
    /\ (sd_phase = "streaming" /\ sd_fed # <<>> /\ IsDict(sd_fed[Len(sd_fed)]))
          => /\ sd_out # <<>>
             /\ sd_out[Len(sd_out)] = sd_fed[Len(sd_fed)]
             /\ Drained(sd_buffer, is_first_sentence, faster_first_response)

\* C2 witness: a dict forwarded between two text units while text is pending
C2_Witness ==
    \E k \in 2..(Len(sd_out) - 1) :
        /\ IsDict(sd_out[k])
        /\ IsTextUnit(sd_out[k - 1])
        /\ IsTextUnit(sd_out[k + 1])

\* C3: after a stream whose configured tags are properly nested has ended and
\* been flushed, the tag stack is empty.
C3_TagBalance ==
    (sd_phase = "done" /\ WellNested(FedText(sd_fed), 0, <<>>)) => tag_stack = <<>>

\* C4: every text unit carries the open tags, outermost first, as INSIDE, or the
\* NONE placeholder; every tag-boundary unit carries one START, END or
\* SELF_CLOSING tag; and "<t>a</t>a." yields (<t>, START), (a, INSIDE),
\* (</t>, END), (a., NONE).
C4_TagAnnotation ==
    /\ \A k \in 1..Len(sd_out) :
          IsUnit(sd_out[k]) =>
              /\ sd_out[k].tags # <<>>
              /\ \/ IsBoundaryUnit(sd_out[k])
                 \/ sd_out[k].tags = ExpectedTags(OpenAfter(SubSeq(sd_out, 1, k - 1), <<>>))
    /\ (sd_phase = "done"
        /\ sd_fed = << StrItem(<<"<", "t", ">", "a", "<", "/", "t", ">", "a", ".">>) >>)
          => sd_out =
               << [kind |-> "unit", text |-> <<"<", "t", ">">>,
                   tags |-> << [name |-> <<"t">>, state |-> "start"] >>],
                  [kind |-> "unit", text |-> <<"a">>,
                   tags |-> << [name |-> <<"t">>, state |-> "inside"] >>],
                  [kind |-> "unit", text |-> <<"<", "/", "t", ">">>,
                   tags |-> << [name |-> <<"t">>, state |-> "end"] >>],
                  [kind |-> "unit", text |-> <<"a", ".">>,
                   tags |-> << [name |-> <<>>, state |-> "none"] >>] >>

\* C4 witness: a text unit inside two nested tags, yielded after their START units
C4_Witness ==
    \E k \in 1..Len(sd_out) :
        /\ IsTextUnit(sd_out[k])
        /\ sd_out[k].tags = << [name |-> <<"t">>, state |-> "inside"],
                               [name |-> <<"u">>, state |-> "inside"] >>

\* C5: whatever an instance went through before, a stream fed to it after
\* reset() yields what a newly constructed instance yields for that stream.
C5_ResetEquivalence ==
    sd_phase \in {"streaming", "done"} => sd_out = sd_twin.yielded

\* C5 witness: a stream that began on an instance with leftover state, ended,
\* and yielded a tag-boundary unit and a text unit
C5_Witness ==
    /\ sd_prior_dirty
    /\ sd_phase = "done"
    /\ \E k \in 1..Len(sd_out) : IsTextUnit(sd_out[k])
    /\ \E k \in 1..Len(sd_out) : IsBoundaryUnit(sd_out[k])

\* ------------------------------------------------------------------------
\* StreamJSONDetector: what the callers of process_chunk observe
\* ------------------------------------------------------------------------
\* the call (1-based) whose chunk holds 0-based position pos of the buffer
CallOf(pos) ==
    CHOOSE c \in 1..Len(jd_calls) :
        /\ pos < jd_calls[c].len
        /\ (c > 1 => jd_calls[c - 1].len <= pos)

OpenBraces == {s \in 0..(Len(jd_buffer) - 1) : jd_buffer[s + 1] = "{"}

\* the position of the "}" that ends the JSON object starting at s, -1 when the
\* text from s on does not start with a JSON object
ObjectEnd(s) ==
    LET n == ParseValue(jd_buffer, s + 1)
    IN  IF n = 0 THEN -1 ELSE n - 2

ReturnedBy(c, s, e) ==
    \E n \in 1..Len(jd_calls[c].returned) : jd_calls[c].returned[n] = <<s, e>>

InSeq(x, xs) == \E n \in 1..Len(xs) : xs[n] = x

\* the span s..e was pending from the call that brought s up to the call
\* before the one that brought e, and only the latter may have returned it
PendingThenOnly(s, e) ==
    /\ \A c \in CallOf(s)..(CallOf(e) - 1) : InSeq(s, jd_calls[c].pending)
    /\ \A c \in 1..Len(jd_calls) :
          c # CallOf(e) => \A n \in 1..Len(jd_calls[c].returned) :
                               jd_calls[c].returned[n][1] # s

\* ------------------------------------------------------------------------
\* Claims on StreamJSONDetector (specification SpecJSON)
\* ------------------------------------------------------------------------

\* C6: the ranges recorded as processed are pairwise non-overlapping, and no
\* range is returned by more than one process_chunk call.
C6_NonOverlap ==
    /\ \A m, n \in 1..Len(processed_ranges) :
          m # n => \/ processed_ranges[m][2] < processed_ranges[n][1]
                   \/ processed_ranges[n][2] < processed_ranges[m][1]
    /\ \A c, d \in 1..Len(jd_calls) :
          c # d => \A n \in 1..Len(jd_calls[c].returned) :
                      ~InSeq(jd_calls[c].returned[n], jd_calls[d].returned)

\* C7: a JSON object whose opening brace and closing brace arrive in
\* different chunks is pending in between, is returned by the call that receives
\* the closing brace, and by no other call.
C7_StreamingCompletion ==
    \A s \in OpenBraces :
        LET e == ObjectEnd(s)
        IN  (e # -1 /\ CallOf(s) < CallOf(e)) =>
                /\ PendingThenOnly(s, e)
                /\ ReturnedBy(CallOf(e), s, e)

\* C8: a start whose brace count returned to zero but whose text failed to parse
\* is no longer pending after that call, and no later call attempts it.
C8_UnparseableDropped ==
    \A c \in 1..Len(jd_calls) :
        \A n \in 1..Len(jd_calls[c].failed) :
            /\ ~InSeq(jd_calls[c].failed[n], jd_calls[c].pending)
            /\ \A d \in (c + 1)..Len(jd_calls) :
                  ~InSeq(jd_calls[c].failed[n], jd_calls[d].attempted)

\* ------------------------------------------------------------------------
\* ToolExecutor: what the consumer of execute_tools observes
\* ------------------------------------------------------------------------
IsFinal(e) == e.type = "final_tool_results"

\* the identifier a formatted result carries, under the key of its caller mode
ResultId(r) ==
    CASE "tool_use_id" \in DOMAIN r -> r.tool_use_id
      [] "tool_call_id" \in DOMAIN r -> r.tool_call_id
      [] OTHER -> r.tool_id

\* the result carries the identifier of the call, or stands for a call that
\* has none
BelongsTo(r, call) ==
    IF call.type # "other" /\ ~Falsy(call.id)
    THEN ResultId(r) = call.id
    ELSE ResultId(r) \in {None, ParseErrorId}

\* the events yielded while the loop went through the i-th call
EventsOf(i) ==
    SubSeq(te_events, (IF i = 1 THEN 0 ELSE te_marks[i - 1]) + 1, te_marks[i])

ErrorEvents(ev) == {k \in 1..Len(ev) : ev[k].status = "error"}

\* the result tells the LLM of the failure: by its is_error flag, or, in OpenAI
\* mode (which has no flag), by the error text as content
ErrorShaped(r, call, exc) ==
    IF "is_error" \in DOMAIN r THEN r.is_error
    ELSE r.content \in {"Error executing tool '" \o call.name \o "': " \o exc,
                        "Unexpected error executing tool '" \o call.name \o "': " \o exc}

\* ------------------------------------------------------------------------
\* Claims on ToolExecutor (specification SpecTools)
\* ------------------------------------------------------------------------

\* C9: execute_tools never ends without its final event; no final_tool_results
\* event is yielded before the end; and at the end exactly one has been yielded,
\* last, whose results list has one result per call, the i-th result belonging to
\* the i-th call, whichever calls failed to parse or to execute.
C9_BatchResult ==
    /\ te_phase # "raised"
    /\ te_phase # "done" => \A k \in 1..Len(te_events) : ~IsFinal(te_events[k])
    /\ te_phase = "done" =>
          /\ te_events # <<>>
          /\ \A k \in 1..Len(te_events) : IsFinal(te_events[k]) <=> k = Len(te_events)
          /\ LET results == te_events[Len(te_events)].results
             IN  /\ Len(results) = Len(te_calls)
                 /\ \A i \in 1..Len(te_calls) : BelongsTo(results[i], te_calls[i])

\* C9 witness: a finished batch of two calls, one that failed to parse and one
\* whose execution failed
C9_Witness ==
    /\ te_phase = "done"
    /\ Len(te_calls) = 2
    /\ \E i, j \in 1..2 :
          /\ te_remote[i].kind = "parse_error"
          /\ te_remote[j].kind = "raise"

\* C10: execute_tools raises nothing; a call whose remote invocation raised has
\* a running event followed by exactly one status event with status error, and
\* an error result under its identifier; and the batch still ends with events
\* and a result for every call.
C10_FailureIsolation ==
    /\ te_phase # "raised"
    /\ \A i \in 1..te_i :
          te_remote[i].kind = "raise" =>
              /\ Cardinality(ErrorEvents(EventsOf(i))) = 1
              /\ EventsOf(i)[Len(EventsOf(i))].status = "error"
              /\ EventsOf(i)[Len(EventsOf(i))].tool_id = te_calls[i].id
              /\ Len(te_results) >= i
              /\ ResultId(te_results[i]) = te_calls[i].id
              /\ ErrorShaped(te_results[i], te_calls[i], te_remote[i].exc)
    /\ te_phase = "done" =>
          /\ te_i = Len(te_calls)
          /\ Len(te_results) = Len(te_calls)
          /\ \A j \in 1..Len(te_calls) : EventsOf(j) # <<>>

\* C10 witness: a finished batch whose first call met an exception that is none
\* of ValueError, RuntimeError and ConnectionError, and whose second call ran
\* and completed
C10_Witness ==
    /\ te_phase = "done"
    /\ Len(te_calls) = 2
    /\ te_remote[1] = Raised("TimeoutError")
    /\ te_remote[2].kind = "return"
    /\ EventsOf(2)[Len(EventsOf(2))].status = "completed"

\* the call, a function-call object or a dict, has malformed argument JSON, no
\* id or no name
Malformed(call) ==
    /\ call.type \in {"ToolCallObject", "dict"}
    /\ \/ Falsy(call.id)
       \/ Falsy(call.name)
       \/ (call.type = "ToolCallObject" /\ call.arguments # "{}")

\* C11: a call with malformed argument JSON, no id or no name gets exactly one
\* status event, of status error, and no running event; an error result is
\* appended for it; and the remote tool is not invoked for it.
C11_ParseFailure ==
    \A i \in 1..te_i :
        Malformed(te_calls[i]) =>
            /\ Len(EventsOf(i)) = 1
            /\ EventsOf(i)[1].status = "error"
            /\ te_remote[i].kind = "parse_error"
            /\ Len(te_results) >= i
            /\ ("is_error" \in DOMAIN te_results[i] => te_results[i].is_error)

\* ------------------------------------------------------------------------
\* BasicMemoryAgent: what the caller of chat and the model API observe
\* ------------------------------------------------------------------------
IsCall(e) == e.kind = "call"

IsYield(e) == e.kind = "yield"

IsEventOf(e, type) == e.kind = "event" /\ e.type = type

\* the position in ag_trace of the model call whose stream entry i belongs to
CallBefore(i) ==
    CHOOSE j \in 1..i : /\ IsCall(ag_trace[j])
                        /\ \A k \in (j + 1)..i : ~IsCall(ag_trace[k])

\* the entries of ag_trace where the loop consumes the report that native
\* tools are unsupported
Reports ==
    { i \in 1..Len(ag_trace) :
        IsEventOf(ag_trace[i], "text") /\ ag_trace[i].text = NotSupportToolsMarker }

\* C12: when the stream reports that native tools are unsupported, nothing is
\* yielded for that event, the loop is in prompt mode and about to call the
\* model, the next model call of the turn carries the message list and finds
\* the memory of the call that was answered by the report, and this happens
\* at most once in a turn.
C12_UnsupportedRestart ==
    /\ Cardinality(Reports) <= 1
    /\ \A i \in Reports :
          LET c == ag_trace[CallBefore(i)]
          IN  IF i = Len(ag_trace)
              THEN /\ ag_pc = "call"
                   /\ prompt_mode_flag
                   /\ messages = c.messages
                   /\ memory = c.memory
              ELSE /\ IsCall(ag_trace[i + 1])
                   /\ ag_trace[i + 1].prompt_mode
                   /\ ag_trace[i + 1].messages = c.messages
                   /\ ag_trace[i + 1].memory = c.memory

\* C13: once the model has reported that native tools are unsupported (its
\* support_tools is off, so that no tool schema reaches the API), every model
\* call of the session, in this turn and in later ones, is issued in prompt
\* mode: with the prompt augmentation and without native tool schemas.
C13_PermanentPromptMode ==
    \A i \in 1..Len(ag_trace) :
        (IsCall(ag_trace[i]) /\ ag_trace[i].available_tools = "NOT_GIVEN") =>
            /\ ag_trace[i].prompt_mode
            /\ ag_trace[i].system = "system+mcp_prompt"
            /\ ag_trace[i].tools = "None"

IsFinalEntry(e) == e.kind = "final"

\* the text deltas consumed from the stream of the model call at position c,
\* up to position i of ag_trace
RECURSIVE RoundText(_, _)
RoundText(c, i) ==
    IF i <= c THEN <<>>
    ELSE RoundText(c, i - 1)
             \o (IF IsEventOf(ag_trace[i], "text") THEN ag_trace[i].text ELSE <<>>)

\* C14: when a model round ends with no tool call requested, the turn has no
\* further model call, and the text of that round is committed to memory as
\* exactly one new assistant entry if it is non-empty and as no entry if it is
\* empty.
C14_FinalCommit ==
    \A i \in 1..Len(ag_trace) :
        IsFinalEntry(ag_trace[i]) =>
            LET text == RoundText(CallBefore(i), i)
                e == ag_trace[i]
            IN  /\ \A k \in (i + 1)..Len(ag_trace) : ~IsCall(ag_trace[k])
                /\ e.after = IF text = <<>> THEN e.before
                             ELSE Append(e.before,
                                         [role |-> "assistant", content |-> text])

IsMarkerEntry(m) == m.content = InterruptedByUser

Markers(mem) == Len(SelectSeq(mem, IsMarkerEntry))

\* this step is a call of handle_interrupt
InterruptStep == ag_interrupts'.total = ag_interrupts.total + 1

\* C15: a handle_interrupt call that is not the first of its turn leaves the
\* memory as it is; the first one of a turn, in the first turn and in every
\* later one, changes the memory and appends exactly one "[Interrupted by
\* user]" marker.
C15_InterruptIdempotence ==
    [][InterruptStep =>
          IF ag_interrupts.turn >= 1
          THEN memory' = memory
          ELSE /\ Markers(memory') = Markers(memory) + 1
               /\ IsMarkerEntry(memory'[Len(memory')])]_vars

C15_Witness ==
    /\ ag_turn >= 2
    /\ ag_interrupts.turn >= 1
    /\ ag_interrupts.total >= ag_interrupts.turn + 2
    /\ Markers(memory) = 2

\* C16: the first handle_interrupt(heard) of a turn, for any heard text,
\* replaces the content of the last memory entry by heard + "..." if that
\* entry is an assistant message and appends an assistant entry heard + "..."
\* otherwise, then appends one "[Interrupted by user]" entry whose role is
\* system when interrupt_method is system and user otherwise, and changes
\* nothing else in the memory.
C16_InterruptRepair ==
    [][(InterruptStep /\ ag_interrupts.turn = 0) =>
          LET heard == ag_interrupts'.heard
              truncated == [role |-> "assistant", content |-> heard \o Ellipsis]
              repaired ==
                  IF memory # <<>> /\ memory[Len(memory)].role = "assistant"
                  THEN [memory EXCEPT ![Len(memory)] = truncated]
                  ELSE Append(memory, truncated)
              interrupt_role == IF interrupt_method = "system" THEN "system" ELSE "user"
          IN  memory' = Append(repaired, [role |-> interrupt_role,
                                          content |-> InterruptedByUser])]_vars

\* the entries of ag_trace where the loop consumes an error report of the
\* model: the error event of Claude, an error text of the OpenAI compatible
\* stream
ErrorReports ==
    { i \in 1..Len(ag_trace) :
        \/ IsEventOf(ag_trace[i], "error")
        \/ (IsEventOf(ag_trace[i], "text") /\ ag_trace[i].text \in OpenAIErrorTexts) }

\* the chunk that shows the error report e to the user
ShownAs(e) == IF e.type = "error" THEN ErrorChunk(e.text) ELSE e.text

UnconfiguredRuns ==
    { i \in 1..Len(ag_trace) :
        ag_trace[i].kind = "tools" /\ ag_trace[i].calls # <<>> /\ ~tool_machinery }

ToolRuns ==
    { i \in 1..Len(ag_trace) :
        ag_trace[i].kind = "tools" /\ ag_trace[i].calls # <<>> }

\* C19: while the loop executes tools, the progress events of the tools
\* (running, completed, error) are yielded to the caller before the next
\* model call: every execution of tool calls is followed by a yield that
\* comes before the next model call of the turn.
C19_ToolProgressForwarded ==
    \A i \in ToolRuns :
        \E k \in (i + 1)..Len(ag_trace) :
            /\ IsYield(ag_trace[k])
            /\ \A j \in (i + 1)..k : ~IsCall(ag_trace[j])

\* the entries of ag_trace where the loop consumes a text delta of the stream
TextDeltas == { i \in 1..Len(ag_trace) : IsEventOf(ag_trace[i], "text") }

FailedRuns ==
    { i \in ToolRuns : \E k \in 1..Len(ag_trace[i].results) :
                          ~Succeeded(ag_trace[i].results[k]) }

\* the API message list the loop holds after entry i of ag_trace
MessagesAfter(i) ==
    IF i < Len(ag_trace) THEN ag_trace[i + 1].messages ELSE messages

\* C21: a failed tool does not abort the turn.  After an execution with a
\* failed tool nothing is raised and the next thing the loop does is a model
\* call, on the message list of the previous call extended by the assistant
\* message that carried the calls and then by the results, the error-shaped
\* one included; the loop returns only after a tool-free round or a model
\* error.
C21_FailedToolContinues ==
    /\ \A i \in FailedRuns :
          LET p == ag_trace[CallBefore(i)].messages
              m == MessagesAfter(i)
          IN  /\ ~ag_trace[i].raised
              /\ IF i < Len(ag_trace) THEN IsCall(ag_trace[i + 1]) ELSE ag_pc = "call"
              /\ Len(m) = Len(p) + 2
              /\ SubSeq(m, 1, Len(p)) = p
              /\ m[Len(p) + 1].role = "assistant"
              /\ m[Len(p) + 1].calls = ag_trace[i].calls
              /\ m[Len(p) + 2].results = ag_trace[i].results
    /\ \A k \in 1..Len(ag_trace) :
          ag_trace[k].kind = "return" =>
              /\ k > 1
              /\ \/ IsFinalEntry(ag_trace[k - 1])
                 \/ (k - 2) \in ErrorReports

C21_Witness ==
    \E i \in FailedRuns :
        /\ ag_pc = "idle"
        /\ ag_trace[i].ran = 0
        /\ \E j \in FailedRuns : j > i /\ ag_trace[j].ran = 1
        /\ IsFinalEntry(ag_trace[Len(ag_trace) - 1])

\* the JSON object that starts at t lies inside the JSON object that starts
\* at s, both parseable
NestedIn(t, s) ==
    /\ ObjectEnd(s) # -1
    /\ ObjectEnd(t) # -1
    /\ s < t
    /\ ObjectEnd(t) < ObjectEnd(s)

\* some process_chunk call returned the object that starts at s
ReturnedObject(s) == \E c \in 1..Len(jd_calls) : ReturnedBy(c, s, ObjectEnd(s))

\* C22: outermost JSON wins.  Of a parseable object and a parseable object
\* nested in it the detector returns the outer one, with the call that
\* receives its closing brace, and never the inner one, whether the two
\* closing braces arrive in one chunk or in different chunks.
C22_OutermostWins ==
    \A s \in OpenBraces : \A t \in OpenBraces :
        NestedIn(t, s) =>
            /\ ~ReturnedObject(t)
            /\ ReturnedBy(CallOf(ObjectEnd(s)), s, ObjectEnd(s))

\* the entries of ag_trace where the loop, in prompt mode, consumes a text
\* delta for which the JSON detector returned a completed value
Detections ==
    { i \in TextDeltas : /\ ag_trace[CallBefore(i)].prompt_mode
                         /\ ag_trace[i].detected # <<>> }

\* C23: in prompt mode, once the detector returns a completed value for a
\* chunk the loop consumes no further event of that stream and yields
\* nothing more from it: what follows in the trace is the execution of the
\* tool calls parsed from the detected values or, when they hold no valid
\* tool call, the next model call.
C23_DetectionStopsStream ==
    \A i \in Detections :
        LET parsed_tools == process_tool_from_prompt_json(ag_trace[i].detected, <<>>)
        IN  /\ \A k \in (i + 1)..Len(ag_trace) :
                  (IsYield(ag_trace[k]) \/ ag_trace[k].kind = "event") =>
                      \E c \in (i + 1)..(k - 1) : IsCall(ag_trace[c])
            /\ IF parsed_tools # <<>>
               THEN /\ i < Len(ag_trace)
                    /\ ag_trace[i + 1].kind = "tools"
                    /\ ag_trace[i + 1].mode = "Prompt"
                    /\ ag_trace[i + 1].calls = parsed_tools
               ELSE IF i < Len(ag_trace) THEN IsCall(ag_trace[i + 1])
                    ELSE ag_pc = "call"

C23_Witness ==
    \E i \in Detections : \E j \in Detections :
        /\ i < j
        /\ ag_trace[i + 1].kind = "tools"
        /\ IsCall(ag_trace[i + 2])
        /\ j = Len(ag_trace)
        /\ ag_pc = "call"

\* the number of configured tags of the given kind in text (the patterns of
\* the tags cannot overlap: each starts with its only "<")
TagCount(text, kind) ==
    Cardinality({ i \in 0..(Len(text) - 1) :
                    /\ text[i + 1] = "<"
                    /\ \E n \in 1..Len(valid_tags) :
                          MatchAt(text, Pattern(kind, valid_tags[n]), i) })

\* the tag-boundary units of the given kind among items
BoundaryUnits(items, kind) ==
    SelectSeq(items, LAMBDA x : IsBoundaryUnit(x) /\ x.tags[1].state = kind)

\* a tag-boundary unit at position k of sd_out that leaves the open tags as
\* they are: a SELF_CLOSING tag, or an END tag that matches no open top
LeavesStack(k) ==
    LET open == OpenAfter(SubSeq(sd_out, 1, k - 1), <<>>)
        t == sd_out[k].tags[1]
    IN  /\ IsBoundaryUnit(sd_out[k])
        /\ \/ t.state = "self"
           \/ (t.state = "end" /\ (open = <<>> \/ open[Len(open)] # t.name))

\* C24: the tag stack is what the tag-boundary units yielded so far make of
\* an empty stack by a push on START and a pop on an END that names the top;
\* SELF_CLOSING tags and END tags that match no open top leave it as it is.
\* Every entry of the stack is a START tag, and once the stream has ended
\* every END and SELF_CLOSING tag of the input has produced its unit.
C24_TagStackFrame ==
    /\ [i \in 1..Len(tag_stack) |-> tag_stack[i].name] = OpenAfter(sd_out, <<>>)
    /\ \A i \in 1..Len(tag_stack) : tag_stack[i].state = "start"
    /\ sd_phase = "done" =>
          LET text == FedText(sd_fed)
          IN  \A kind \in {"end", "self"} :
                  Len(BoundaryUnits(sd_out, kind)) >= TagCount(text, kind)

C24_Witness ==
    /\ sd_phase = "done"
    /\ tag_stack # <<>>
    /\ \E k \in 1..Len(sd_out) : LeavesStack(k) /\ sd_out[k].tags[1].state = "self"
    /\ \E k \in 1..Len(sd_out) :
          /\ LeavesStack(k)
          /\ sd_out[k].tags[1].state = "end"
          /\ OpenAfter(SubSeq(sd_out, 1, k - 1), <<>>) # <<>>

\* ------------------------------------------------------------------------
\* The first-sentence comma split
\* ------------------------------------------------------------------------
\* the units of a stream of the chunks "Hello, ", "world. How are you", "?"
\* through a new divider
HelloChunks ==
    << <<"H", "e", "l", "l", "o", ",", " ">>,
       <<"w", "o", "r", "l", "d", ".", " ", "H", "o", "w", " ", "a", "r", "e", " ",
         "y", "o", "u">>,
       <<"?">> >>

HelloUnits(ffr) ==
    flush_buffer(ConsumeItem(ConsumeItem(ConsumeItem(NewDivider(ffr),
        StrItem(HelloChunks[1])), StrItem(HelloChunks[2])), StrItem(HelloChunks[3]))).yielded

\* a text unit was yielded before position k of the stream's output
TextUnitBefore(k) == \E j \in 1..(k - 1) : IsTextUnit(sd_out[j])

\* C25: within one stream the comma split makes at most one unit, makes it
\* only while no text unit has been yielded in that stream, and makes none
\* when faster_first_response is off; the chunks "Hello, ", "world. How are
\* you", "?" give "Hello," as the first unit when it is on.
C25_FirstSentenceOnly ==
    /\ Len(sd_commas) <= 1
    /\ \A i \in 1..Len(sd_commas) : ~TextUnitBefore(sd_commas[i])
    /\ ~faster_first_response => sd_commas = <<>>
    /\ HelloUnits(TRUE)[1].text = <<"H", "e", "l", "l", "o", ",">>

\* the parts of the statement that do not depend on what was yielded before
CommaSplitOncePerStream ==
    /\ Len(sd_commas) <= 1
    /\ ~faster_first_response => sd_commas = <<>>
    /\ HelloUnits(TRUE)[1].text = <<"H", "e", "l", "l", "o", ",">>

\* the comma-class characters of the model's alphabet
IsCommaChar(ch) == \E i \in 1..Len(COMMAS) : COMMAS[i] = <<ch>>

CommaPositions(text) == {i \in 1..Len(text) : IsCommaChar(text[i])}

EarliestComma(text) ==
    CHOOSE i \in CommaPositions(text) : \A j \in CommaPositions(text) : i <= j

\* a chunk of letters, spaces and comma-class characters was fed and the comma
\* split fired on it
CommaSplitFired ==
    /\ cs_phase = "fed"
    /\ cs_divider.commas # <<>>
    /\ \A i \in 1..Len(cs_chunk) : cs_chunk[i][1] \in CommaAlphabet

SplitAtEarliest ==
    LET text == Concat(cs_chunk)
        pos == EarliestComma(text)
    IN  /\ cs_divider.yielded[cs_divider.commas[1]].text =
               strip(SubSeq(text, 1, pos - 1)) \o <<text[pos]>>
        /\ cs_divider.buffer = strip(From(text, pos))

\* C26: when the comma split fires on a buffer, the unit it yields is the
\* text in front of the buffer's earliest comma-class character (without
\* surrounding whitespace) followed by that character, and the text after
\* that character stays in the buffer.
C26_SplitAtEarliestComma == CommaSplitFired => SplitAtEarliest

\* the same for buffers whose comma-class characters are all of one kind
SplitAtFirstOfOneKind ==
    (/\ CommaSplitFired
     /\ \A i, j \in CommaPositions(Concat(cs_chunk)) :
           Concat(cs_chunk)[i] = Concat(cs_chunk)[j]) => SplitAtEarliest

\* C27: every run of the drain loop ends, and each pass of it either leaves
\* the buffer strictly shorter than it found it or is the last pass: the
\* buffer lengths at the starts of the passes of a run fall strictly, so a
\* run on a buffer of n characters has at most n + 1 passes.
C27_DrainTerminates ==
    /\ \A k \in 1..(Len(cs_drain) - 1) : cs_drain[k + 1] < cs_drain[k]
    /\ cs_drain # <<>> => Len(cs_drain) <= cs_drain[1] + 1

\* a drain of several passes through the tag, comma-split and sentence
\* branches, on a divider that had a tag open
C27_Witness ==
    /\ cs_phase = "fed"
    /\ Len(cs_drain) >= 4
    /\ cs_divider.commas # <<>>
    /\ Len(cs_divider.yielded) >= 4
    /\ \E k \in 1..Len(cs_divider.yielded) :
          /\ IsBoundaryUnit(cs_divider.yielded[k])
          /\ cs_divider.yielded[k].tags[1].state = "end"

\* ------------------------------------------------------------------------
\* What a turn of the Claude loop commits
\* ------------------------------------------------------------------------
IsToolsEntry(e) == e.kind = "tools"

HasEntry(Test(_)) == \E i \in 1..Len(ag_trace) : Test(ag_trace[i])

FirstCall == CHOOSE i \in 1..Len(ag_trace) :
                 IsCall(ag_trace[i]) /\ \A j \in 1..(i - 1) : ~IsCall(ag_trace[j])

\* the text the caller of chat has received in this turn
TurnYielded ==
    Concat([i \in 1..Len(SelectSeq(ag_trace, IsYield)) |->
               SelectSeq(ag_trace, IsYield)[i].text])

\* the memory entries added since the first model call of the turn
TurnCommitted ==
    SubSeq(memory, Len(ag_trace[FirstCall].memory) + 1, Len(memory))

\* a turn of the Claude loop that ran tools and has made its final commit
ClaudeTurnWithToolsDone ==
    /\ llm_type = "Claude"
    /\ HasEntry(IsToolsEntry)
    /\ HasEntry(IsFinalEntry)

\* C28: at the end of a turn of the Claude loop that had one or more tool
\* rounds, the entries committed to memory during the turn are assistant
\* entries whose contents, concatenated, are the text yielded during the turn.
C28_NoDoubleCommit ==
    ClaudeTurnWithToolsDone =>
        /\ \A i \in 1..Len(TurnCommitted) : TurnCommitted[i].role = "assistant"
        /\ Concat([i \in 1..Len(TurnCommitted) |-> TurnCommitted[i].content])
               = TurnYielded

\* the model call issued next after position i of ag_trace, if there is one
CallsAfter(i) ==
    { c \in (i + 1)..Len(ag_trace) :
        IsCall(ag_trace[c]) /\ \A k \in (i + 1)..(c - 1) : ~IsCall(ag_trace[k]) }

PromptProgressWithTool ==
    \A i \in Detections :
        process_tool_from_prompt_json(ag_trace[i].detected, <<>>) # <<>> =>
            \A c \in CallsAfter(i) :
                Len(ag_trace[c].messages) > Len(ag_trace[CallBefore(i)].messages)

\* ------------------------------------------------------------------------
\* The proxy queue: one conversation at a time
\* ------------------------------------------------------------------------
IsAscending(ids) == \A i, j \in 1..Len(ids) : i < j => ids[i] < ids[j]

\* the consumer pops a message in this step
HandOver == px_handed' # px_handed

\* the consumer pops the messages in arrival order, and pops one only when
\* no conversation is active, marking the conversation active in that step
HandOverInOrderWhenInactive ==
    [][/\ IsAscending(px_handed')
       /\ HandOver => (~conversation_active /\ conversation_active')]_vars

\* C30: the messages reach the forward function in arrival order; a message
\* is handed over only when conversation_active is false, and that step
\* sets it; and no message is forwarded while an earlier message, forwarded
\* before it, has had no interrupt or conversation-end signal since.
C30_OneConversationAtATime ==
    [][/\ IsAscending(px_handed')
       /\ IsAscending(px_forwarded')
       /\ HandOver => (~conversation_active /\ conversation_active')
       /\ Cardinality(px_open') <= 1]_vars
====
